---- MODULE Spec2Model ----
(***************************************************************************)
(* Model of the pcdaemon peripheral drivers' request/response protocol     *)
(* engine: UI get/set dispatch, register packets to and from the FPGA,     *)
(* the per-resource UI lock (uilock), the broadcast key (bkey) and the     *)
(* dropped-ACK watchdog timer (ptimer).                                    *)
(*                                                                         *)
(* One peripheral instance is modelled at a time; Init chooses the driver  *)
(* (variable drv) and every handler of that driver is one action.          *)
(* A handler is written as a function from the machine state before the    *)
(* call to the machine state after it; the daemon services a handler uses  *)
(* (pc_tx_pkt, add_timer, del_timer, send_ui, prompt, bcst_ui, pclog) are   *)
(* operators on that machine state and record every call in "out".         *)
(***************************************************************************)
EXTENDS Integers, Sequences, FiniteSets, TLC

VARIABLES
    drv,      \* which driver this peripheral instance runs
    ctx,      \* the driver's private context (pslot->priv)
    rsc,      \* pslot->rsc[]: per resource uilock and bkey
    timerq,   \* the daemon's timer queue: handles of the timers now armed
    subs,     \* the UI sessions monitoring the broadcast resource (pccat)
    wdfor,    \* history: the request the armed watchdog was started for
    evt,      \* the event the last step handled
    out       \* every daemon service the last step's handler called

vars == <<drv, ctx, rsc, timerq, subs, wdfor, evt, out>>

---------------------------------------------------------------------------
(* Bounds of the model *)

\* number of UI sessions (connections) that issue commands
NumSessions == 2
\* number of slots in the daemon's timer table
MaxTimers == 2

Sessions == 0 .. (NumSessions - 1)

---------------------------------------------------------------------------
(* Program constants *)

NOLOCK == -1
MXRPLY == 1000
NUM_CORE == 16
NOACK_MS == 100

S7_REG_BUTTONS == 0
S7_REG_LEDS == 1
S7_REG_DRIVLIST == 64

DGSPI_REG_MODE == 0
DGSPI_REG_COUNT == 2
DGSPI_NDATA_BYTE == 64
CS_MODE_AL == 0
CS_MODE_AH == 1
CS_MODE_FL == 2
CS_MODE_FH == 3
CLK_2M == 0
CLK_1M == 1
CLK_500K == 2
CLK_100K == 3
PS2_REG_DATA == 0
CVCC_REG_VIIN == 0
CVCC_REG_VIOUT == 8
FULLSCALE == 1023
GETCOUNT == 15
ISL_ID == 125
RUNBR_REG_SWITCH == 0
RUNBR_REG_RED == 2
RUNBR_REG_DRIVLIST == 64
NDIGITS == 4
VGA_REG_CHAR == 0
VGA_REG_CURCOL == 1
VGA_REG_FGRGB == 5
NUMROW == 40
NUMCOL == 80

SENDCONFIG == "SENDCONFIG"
SENDDATA == "SENDDATA"

OP_READ == "PC_CMD_OP_READ"
OP_WRITE == "PC_CMD_OP_WRITE"

CAN_BROADCAST == "CAN_BROADCAST"
IS_READABLE == "IS_READABLE"
IS_WRITABLE == "IS_WRITABLE"

PCGET == "PCGET"
PCSET == "PCSET"

E_NOACK == "E_NOACK"
E_WRFPGA == "E_WRFPGA"

E_BUSY(name) == "ERROR 005 : Resource '" \o name \o "' is busy\n"
E_NREAD(name) == "ERROR 006 : Resource '" \o name \o "' is not readable\n"
E_NWRITE(name) == "ERROR 007 : Resource '" \o name \o "' is not writable\n"
E_BDVAL(name) == "ERROR 008 : Invalid value given for resource '" \o name \o "'\n"

---------------------------------------------------------------------------
(* Text conversions: printf("%x"), sscanf("%x") *)

HexDigits == <<"0", "1", "2", "3", "4", "5", "6", "7",
               "8", "9", "a", "b", "c", "d", "e", "f">>

RECURSIVE FmtHex(_)
\* printf("%x", n) for n >= 0
FmtHex(n) ==
    IF n < 16 THEN HexDigits[n + 1]
    ELSE FmtHex(n \div 16) \o HexDigits[(n % 16) + 1]

RECURSIVE FmtHexW(_, _)
\* printf("%0wx", n): zero padded to at least w digits
FmtHexW(n, w) ==
    IF w <= 1 THEN FmtHex(n)
    ELSE IF n < 16 THEN
        (IF w = 2 THEN "0" ELSE FmtHexW(0, w - 1)) \o HexDigits[n + 1]
    ELSE FmtHexW(n \div 16, w - 1) \o HexDigits[(n % 16) + 1]

\* value of one hex digit character, -1 when the character is no hex digit
HexVal(c) ==
    CASE c = "0" -> 0 [] c = "1" -> 1 [] c = "2" -> 2 [] c = "3" -> 3
      [] c = "4" -> 4 [] c = "5" -> 5 [] c = "6" -> 6 [] c = "7" -> 7
      [] c = "8" -> 8 [] c = "9" -> 9
      [] c \in {"a", "A"} -> 10 [] c \in {"b", "B"} -> 11
      [] c \in {"c", "C"} -> 12 [] c \in {"d", "D"} -> 13
      [] c \in {"e", "E"} -> 14 [] c \in {"f", "F"} -> 15
      [] OTHER -> -1

RECURSIVE SkipSpace(_)
SkipSpace(s) ==
    IF s # <<>> /\ Head(s) = " " THEN SkipSpace(Tail(s)) ELSE s

\* a 32 bit accumulator shifted left by one hex digit, d added: the low 32
\* bits of (acc * 16) + d, held as the int with the same bits
Shl4(acc, d) ==
    LET low == acc % 268435456
    IN  IF low >= 134217728
        THEN ((((low - 134217728) * 16) + d) - 2147483647) - 1
        ELSE (low * 16) + d

\* the negation of a 32 bit int, in 32 bits
Neg32(v) == IF v = (0 - 2147483647) - 1 THEN v ELSE 0 - v

RECURSIVE HexPrefix(_, _, _)
\* the longest run of hex digits at the head of s: [n digits, value, rest];
\* the value is what a run of up to eight digits leaves in a 32 bit int
HexPrefix(s, n, acc) ==
    IF s # <<>> /\ HexVal(Head(s)) >= 0
    THEN HexPrefix(Tail(s), n + 1, Shl4(acc, HexVal(Head(s))))
    ELSE [n |-> n, val |-> acc, rest |-> s]

\* sscanf(val, "%x", &v): ret is the number of conversions (-1: end of input
\* before any conversion), val the converted int, rest the unread input.
\* A user value is a sequence of one-character strings.  The number is
\* converted as strtoul does, a leading minus sign negating the unsigned
\* result, and its low 32 bits are stored in the int.
ScanHex(val) ==
    LET s0  == SkipSpace(val)
        neg == s0 # <<>> /\ Head(s0) = "-"
        s1  == IF s0 # <<>> /\ Head(s0) \in {"-", "+"} THEN Tail(s0) ELSE s0
        p   == HexPrefix(s1, 0, 0)
    IN  IF s0 = <<>> THEN [ret |-> -1, val |-> 0, rest |-> s0]
        ELSE IF p.n = 0 THEN [ret |-> 0, val |-> 0, rest |-> s0]
        ELSE [ret |-> 1, val |-> IF neg THEN Neg32(p.val) ELSE p.val,
              rest |-> p.rest]

RECURSIVE FmtDecU(_)
\* the decimal digits of n >= 0
FmtDecU(n) ==
    IF n < 10 THEN HexDigits[n + 1]
    ELSE FmtDecU(n \div 10) \o HexDigits[(n % 10) + 1]

\* printf("%d", n)
FmtDec(n) ==
    IF n < 0 THEN "-" \o FmtDecU(0 - n) ELSE FmtDecU(n)

\* value of one decimal digit character, -1 when it is no decimal digit
DecVal(c) == IF HexVal(c) \in 0 .. 9 THEN HexVal(c) ELSE -1

RECURSIVE DecPrefix(_, _, _)
\* the longest run of decimal digits at the head of s
DecPrefix(s, n, acc) ==
    IF s # <<>> /\ DecVal(Head(s)) >= 0
    THEN DecPrefix(Tail(s), n + 1, (acc * 10) + DecVal(Head(s)))
    ELSE [n |-> n, val |-> acc, rest |-> s]

\* sscanf(val, "%d", &v), as ScanHex
ScanDec(val) ==
    LET s0  == SkipSpace(val)
        neg == s0 # <<>> /\ Head(s0) = "-"
        s1  == IF s0 # <<>> /\ Head(s0) \in {"-", "+"} THEN Tail(s0) ELSE s0
        p   == DecPrefix(s1, 0, 0)
    IN  IF s0 = <<>> THEN [ret |-> -1, val |-> 0, rest |-> s0]
        ELSE IF p.n = 0 THEN [ret |-> 0, val |-> 0, rest |-> s0]
        ELSE [ret |-> 1, val |-> IF neg THEN 0 - p.val ELSE p.val, rest |-> p.rest]

RECURSIVE WordPrefix(_, _)
\* the run of non-blank characters at the head of s
WordPrefix(s, acc) ==
    IF s # <<>> /\ Head(s) # " " THEN WordPrefix(Tail(s), Append(acc, Head(s)))
    ELSE acc

\* sscanf(val, "%s", ibuf): the next word, <<>> when the input has ended
ScanWord(val) == WordPrefix(SkipSpace(val), <<>>)

RECURSIVE Strtok(_, _, _)
\* the tokens strtok(val, ", ") returns one after the other: the runs of
\* characters between commas and spaces
Strtok(s, cur, acc) ==
    IF s = <<>> THEN (IF cur = <<>> THEN acc ELSE Append(acc, cur))
    ELSE IF Head(s) \in {",", " "}
    THEN Strtok(Tail(s), <<>>, IF cur = <<>> THEN acc ELSE Append(acc, cur))
    ELSE Strtok(Tail(s), Append(cur, Head(s)), acc)

\* printf("%03x", n) for a 32 bit int n: a negative n prints as the
\* unsigned n + 2^32, here from its two 16 bit halves
FmtHex3(n) ==
    IF n >= 0 THEN FmtHexW(n, 3)
    ELSE LET u == (n + 2147483647) + 1
         IN  FmtHex(32768 + (u \div 65536)) \o FmtHexW(u % 65536, 4)

\* printf("%3d", n) for n >= 0: padded with blanks to three characters
FmtDec3(n) ==
    (IF n < 10 THEN "  " ELSE IF n < 100 THEN " " ELSE "") \o FmtDecU(n)

\* sscanf(val, " %c", &c): the next non-blank character, as ScanHex
ScanChar(val) ==
    LET s0 == SkipSpace(val)
    IN  IF s0 = <<>> THEN [ret |-> -1, val |-> "", rest |-> s0]
        ELSE [ret |-> 1, val |-> Head(s0), rest |-> Tail(s0)]

\* one conversion of a format: "x" is %x, "d" is %d, "c" is " %c"
ScanItem(val, f) ==
    IF f = "x" THEN ScanHex(val)
    ELSE IF f = "d" THEN ScanDec(val)
    ELSE ScanChar(val)

RECURSIVE Sscanf(_, _, _)
\* sscanf goes on to the next conversion only after one that assigned
SscanfNext(it, fmt, got) ==
    IF it.ret # 1 THEN got ELSE Sscanf(it.rest, fmt, Append(got, it.val))

\* sscanf(val, fmt, ...): the items assigned, in order, before the first
\* conversion that fails
Sscanf(val, fmt, got) ==
    IF fmt = <<>> THEN got
    ELSE SscanfNext(ScanItem(val, Head(fmt)), Tail(fmt), got)

\* the four locals after the call: an item not assigned keeps what the unset
\* local held (g.int for the integers, g.ch1 and g.ch2 for the characters)
Scan4Got(got, g) ==
    [n  |-> Len(got),
     i1 |-> IF Len(got) >= 1 THEN got[1] ELSE g.int,
     i2 |-> IF Len(got) >= 2 THEN got[2] ELSE g.int,
     c1 |-> IF Len(got) >= 3 THEN got[3] ELSE g.ch1,
     c2 |-> IF Len(got) >= 4 THEN got[4] ELSE g.ch2]

\* sscanf(val, "%d %d %c %c", ...) and, with hex, "%x %x %c %c": n is the
\* number of items assigned
Scan4(val, hex, g) ==
    Scan4Got(Sscanf(val, IF hex THEN <<"x", "x", "c", "c">>
                         ELSE <<"d", "d", "c", "c">>, <<>>), g)

RECURSIVE BitOr(_, _)
\* a | b for a, b >= 0
BitOr(a, b) ==
    IF a = 0 THEN b
    ELSE IF b = 0 THEN a
    ELSE (2 * BitOr(a \div 2, b \div 2)) + (IF (a % 2) + (b % 2) > 0 THEN 1 ELSE 0)

\* (char) cn as stored in uilock
CharCast(cn) ==
    LET m == cn % 256 IN IF m < 128 THEN m ELSE m - 256

---------------------------------------------------------------------------
(* The machine state a handler runs on, and the record of what it called *)

NoReply == "(none)"

\* nothing called yet; plen is *plen as the dispatcher passed it in, fault
\* is set when the handler dereferenced a null pointer, sys lists the
\* calls that close a file descriptor or remove it from the select loop
EmptyOut ==
    [tx |-> <<>>, add |-> <<>>, del |-> <<>>, ui |-> <<>>, log |-> <<>>,
     reply |-> NoReply, plen |-> MXRPLY, fault |-> FALSE, sys |-> <<>>]

\* the machine state now, before the handler of the next event runs
Cur == [ctx |-> ctx, rsc |-> rsc, tq |-> timerq, subs |-> subs, out |-> EmptyOut]

SetCtx(m, f, v) == [m EXCEPT !.ctx[f] = v]

---------------------------------------------------------------------------
(* Daemon services used by the drivers *)

\* pc_tx_pkt(pcore, &pkt, len): hands the packet to the transport; txret is
\* the transport's answer (0: accepted)
pc_tx_pkt(m, pkt, len, txret) ==
    [m EXCEPT !.out.tx = Append(@, [pkt |-> pkt, len |-> len, ret |-> txret])]

\* the handle add_timer returns next: the first free slot of the timer
\* table, 0 (null) when the table is full
FreeTimer(tq) ==
    IF \E h \in 1 .. MaxTimers : h \notin tq
    THEN CHOOSE h \in 1 .. MaxTimers :
            h \notin tq /\ \A g \in 1 .. MaxTimers : g \notin tq => h <= g
    ELSE 0

\* add_timer(type, ms, cb, pcb_data): queues the timer whose handle is h
add_timer(m, type, ms, h) ==
    [m EXCEPT !.tq = IF h = 0 THEN @ ELSE @ \cup {h},
              !.out.add = Append(@, [h |-> h, type |-> type, ms |-> ms])]

\* del_timer(ptimer): removes the timer from the queue; the call is recorded
\* with whether the handle named an armed timer
del_timer(m, h) ==
    [m EXCEPT !.tq = @ \ {h},
              !.out.del = Append(@, [h |-> h, armed |-> h \in m.tq])]

\* send_ui(buf, len, cn)
send_ui(m, text, cn) ==
    [m EXCEPT !.out.ui = Append(@, [fn |-> "send_ui", cn |-> cn, to |-> {cn},
                                    text |-> text])]

\* prompt(cn)
prompt(m, cn) ==
    [m EXCEPT !.out.ui = Append(@, [fn |-> "prompt", cn |-> cn, to |-> {cn},
                                    text |-> ""])]

\* bcst_ui(buf, len, &bkey): sends the buffer down every UI connection that
\* monitors the resource and clears the key if there is none any more
bcst_ui(m, text, r) ==
    [m EXCEPT !.out.ui = Append(@, [fn |-> "bcst_ui", cn |-> NOLOCK,
                                    to |-> m.subs, text |-> text]),
              !.rsc[r].bkey = IF m.subs = {} THEN 0 ELSE @]

\* pclog(format, ...)
pclog(m, msg) == [m EXCEPT !.out.log = Append(@, msg)]

\* ret = snprintf(buf, *plen, text); *plen = ret
Reply(m, text) == [m EXCEPT !.out.reply = text, !.out.plen = Len(text)]

\* *plen = 0: nothing to send back to the user
NoOutput(m) == [m EXCEPT !.out.plen = 0]

---------------------------------------------------------------------------
(* The UI command layer in front of the drivers' get/set callbacks *)

\* pcget/pcset admission: a get needs a readable and a set a writable
\* resource, and a resource locked to a session awaiting its reply is busy;
\* only then is the resource's pgscb callback run (its result is "called")
Dispatch(flags, cmd, r, m, called) ==
    IF cmd = PCGET /\ IS_READABLE \notin flags THEN Reply(m, E_NREAD(r))
    ELSE IF cmd = PCSET /\ IS_WRITABLE \notin flags THEN Reply(m, E_NWRITE(r))
    ELSE IF m.rsc[r].uilock # NOLOCK THEN Reply(m, E_BUSY(r))
    ELSE called

\* pccat: session s starts monitoring resource r; the key is set
Monitor(m, r, s) ==
    [m EXCEPT !.subs = @ \cup {s}, !.rsc[r].bkey = 1]

\* session s stops monitoring (its connection closes); the key is left to
\* the next bcst_ui
Unmonitor(m, s) == [m EXCEPT !.subs = @ \ {s}]

---------------------------------------------------------------------------
(* Packets *)

\* a packet buffer filled with byte b
Fill(b) == [i \in 0 .. 63 |-> b]

ReadCmd == [op |-> OP_READ, inc |-> TRUE, auto |-> FALSE]
WriteCmd == [op |-> OP_WRITE, inc |-> TRUE, auto |-> FALSE]

\* the request shape of a packet: operation, register, count
Shape(pkt) == [op |-> pkt.cmd.op, reg |-> pkt.reg, count |-> pkt.count]

\* no request is being watched
NoShape == [op |-> "none", reg |-> 0, count |-> 0]

---------------------------------------------------------------------------
(* The watchdog, as every driver arms it *)

\* ArmWatchdog without the test for a timer already running
ArmWatchdog_always(m) ==
    LET h == FreeTimer(m.tq)
    IN  SetCtx(add_timer(m, "PC_ONESHOT", NOACK_MS, h), "ptimer", h)

\* if (pctx->ptimer == 0)
\*     pctx->ptimer = add_timer(PC_ONESHOT, 100, noAck, (void *) pctx);
ArmWatchdog(m) ==
    IF m.ctx.ptimer = 0
    THEN LET h == FreeTimer(m.tq)
         IN  SetCtx(add_timer(m, "PC_ONESHOT", NOACK_MS, h), "ptimer", h)
    ELSE m

\* del_timer(pctx->ptimer); pctx->ptimer = 0;
GotResponse(m) == SetCtx(del_timer(m, m.ctx.ptimer), "ptimer", 0)

\* noAck that starts the watchdog again
noAck_rearms(m) ==
    LET h == FreeTimer(m.tq)
    IN  SetCtx(add_timer(pclog(m, E_NOACK), "PC_ONESHOT", NOACK_MS, h), "ptimer", h)

\* noAck that also gives up the value that was not acknowledged
noAck_dropsRgb(m) == SetCtx(pclog(m, E_NOACK), "rgb", 0)

\* noAck that sends the LED value down again
noAck_resends(m) ==
    pc_tx_pkt(pclog(m, E_NOACK),
              [cmd |-> WriteCmd, reg |-> 0, count |-> 1,
               data |-> <<m.ctx.rgb % 256>>], 5, 0)

\* noAck(timer, pctx): the watchdog's callback
noAck(m) == pclog(m, E_NOACK)

\* the timer queue fires the one-shot timer h: the timer leaves the queue
\* and its callback runs
FireOneShot(m, h) == noAck([m EXCEPT !.tq = @ \ {h}])

---------------------------------------------------------------------------
(* cmods7: the buttons and RGB LED of the Digilent CmodS7 *)

S7Rsc == {"buttons", "rgb", "drivlist"}

\* S7Flags with the buttons also marked writable
S7Flags_buttonsWritable(r) ==
    CASE r = "buttons" -> {IS_READABLE, IS_WRITABLE, CAN_BROADCAST}
      [] r = "rgb" -> {IS_READABLE, IS_WRITABLE}
      [] r = "drivlist" -> {IS_READABLE}

\* the resources' capability flags as Initialize sets them
S7Flags(r) ==
    CASE r = "buttons" -> {IS_READABLE, CAN_BROADCAST}
      [] r = "rgb" -> {IS_READABLE, IS_WRITABLE}
      [] r = "drivlist" -> {IS_READABLE}

\* board2tofpga that hands the packet to the transport twice
board2tofpga_twice(m, txret) ==
    LET pkt == [cmd |-> WriteCmd, reg |-> S7_REG_LEDS, count |-> 1,
                data |-> <<m.ctx.rgb % 256>>]
    IN  ArmWatchdog(pc_tx_pkt(pc_tx_pkt(m, pkt, 4 + pkt.count, txret),
                              pkt, 4 + pkt.count, txret))

\* board2tofpga(pctx): send the RGB value down to the card
board2tofpga(m, txret) ==
    LET pkt == [cmd |-> WriteCmd, reg |-> S7_REG_LEDS, count |-> 1,
                data |-> <<m.ctx.rgb % 256>>]
    IN  ArmWatchdog(pc_tx_pkt(m, pkt, 4 + pkt.count, txret))

\* getdriverlist(pctx): read the list of peripheral IDs
getdriverlist(m, txret) ==
    LET pkt == [cmd |-> ReadCmd, reg |-> S7_REG_DRIVLIST, count |-> 32,
                data |-> <<>>]
    IN  ArmWatchdog(pc_tx_pkt(m, pkt, 4, txret))

RECURSIVE S7FmtDrivlist(_, _)
\* the 16 IDs as "%04x " each, from index i on
S7FmtDrivlist(dl, i) ==
    IF i >= 16 THEN ""
    ELSE FmtHexW(dl[i], 4) \o (IF i = 15 THEN "\n" ELSE " ") \o S7FmtDrivlist(dl, i + 1)

\* S7_GetButtons with the lock given to the wrong UI table index
S7_GetButtons_wrongSession(m, cn, txret) ==
    LET pkt == [cmd |-> ReadCmd, reg |-> S7_REG_BUTTONS, count |-> 1,
                data |-> <<>>]
        m1  == pc_tx_pkt(m, pkt, 4, txret)
    IN  IF txret # 0 THEN Reply(m1, E_WRFPGA)
        ELSE NoOutput([ArmWatchdog(m1) EXCEPT
                          !.rsc["buttons"].uilock = CharCast((cn + 1) % NumSessions)])

\* usercmd, pcget buttons: send a read packet for the buttons register,
\* start the watchdog and lock the resource to the UI session cn
S7_GetButtons(m, cn, txret) ==
    LET pkt == [cmd |-> ReadCmd, reg |-> S7_REG_BUTTONS, count |-> 1,
                data |-> <<>>]
        m1  == pc_tx_pkt(m, pkt, 4, txret)
    IN  IF txret # 0 THEN Reply(m1, E_WRFPGA)
        ELSE NoOutput([ArmWatchdog(m1) EXCEPT
                          !.rsc["buttons"].uilock = CharCast(cn)])

\* S7_SetRgb that puts the old value back when the packet is refused
S7_SetRgb_rollsBack(m, val, txret) ==
    LET sc == ScanHex(val)
        newled == sc.val
    IN  IF (sc.ret # 1) \/ (newled > 7) \/ (newled < 0)
        THEN Reply(m, E_BDVAL("rgb"))
        ELSE LET m1 == board2tofpga(SetCtx(m, "rgb", newled), txret)
             IN  IF txret # 0
                 THEN Reply(SetCtx(m1, "rgb", m.ctx.rgb), E_WRFPGA)
                 ELSE m1

\* usercmd, pcset rgb: scan the value as hex, store it and send it down
S7_SetRgb(m, val, txret) ==
    LET sc == ScanHex(val)
        newled == sc.val
    IN  IF (sc.ret # 1) \/ (newled > 7) \/ (newled < 0)
        THEN Reply(m, E_BDVAL("rgb"))
        ELSE LET m1 == board2tofpga(SetCtx(m, "rgb", newled), txret)
             IN  IF txret # 0 THEN Reply(m1, E_WRFPGA) ELSE m1

\* S7_GetRgb that also starts the watchdog, as a live read does
S7_GetRgb_armsWatchdog(m) ==
    ArmWatchdog(Reply(m, FmtHex(m.ctx.rgb) \o "\n"))

\* usercmd, pcget rgb: print the stored value
S7_GetRgb(m) == Reply(m, FmtHex(m.ctx.rgb) \o "\n")

\* usercmd(cmd, rscid, val, pslot, cn, plen, buf)
S7_usercmd(m, cmd, rscid, val, cn, txret) ==
    IF cmd = PCSET /\ rscid = "rgb" THEN
        S7_SetRgb(m, val, txret)
    ELSE IF cmd = PCGET /\ rscid = "rgb" THEN
        S7_GetRgb(m)
    ELSE IF cmd = PCGET /\ rscid = "buttons" THEN
        S7_GetButtons(m, cn, txret)
    ELSE IF cmd = PCGET /\ rscid = "drivlist" THEN
        IF m.out.plen < ((5 * NUM_CORE) + 10) THEN NoOutput(m)
        ELSE Reply(m, S7FmtDrivlist(m.ctx.drivlist, 0))
    ELSE m

\* S7_ReadResponse with the lock left set
S7_ReadResponse_keepsLock(m, pkt) ==
    LET lock == m.rsc["buttons"].uilock
    IN  GotResponse(prompt(send_ui(m, FmtHex(pkt.data[0]) \o "\n", lock), lock))

\* packet_hdlr, the read response to a pcget of the buttons: send the value
\* to the UI that holds the lock, clear the lock, clear the timer
S7_ReadResponse(m, pkt) ==
    LET lock == m.rsc["buttons"].uilock
        m1   == prompt(send_ui(m, FmtHex(pkt.data[0]) \o "\n", lock), lock)
    IN  GotResponse([m1 EXCEPT !.rsc["buttons"].uilock = NOLOCK])

\* S7_Autosend without the comparison to the last button value
S7_Autosend_noSuppress(m, pkt) ==
    SetCtx(bcst_ui(m, FmtHex(pkt.data[0]) \o "\n", "buttons"),
           "lastbutton", pkt.data[0])

\* packet_hdlr, the autosend button update: broadcast it unless it repeats
\* the last one
S7_Autosend(m, pkt) ==
    LET m1 == IF m.ctx.lastbutton # pkt.data[0]
              THEN bcst_ui(m, FmtHex(pkt.data[0]) \o "\n", "buttons")
              ELSE m
    IN  SetCtx(m1, "lastbutton", pkt.data[0])

\* packet_hdlr, the read response to getdriverlist
S7_DrivlistResponse(m, pkt) ==
    GotResponse(SetCtx(m, "drivlist",
        [i \in 0 .. (NUM_CORE - 1) |->
            (pkt.data[2 * i] * 256) + pkt.data[(2 * i) + 1]]))

\* packet_hdlr, the write response: clear the timer
S7_WriteResponse(m) ==
    IF m.ctx.ptimer # 0 THEN GotResponse(m) ELSE m

\* packet_hdlr(pslot, pkt, len)
S7_packet_hdlr(m, pkt) ==
    IF pkt.cmd.op = OP_WRITE THEN S7_WriteResponse(m)
    ELSE
        LET m1 == IF (~pkt.cmd.auto) /\ (pkt.reg = S7_REG_DRIVLIST)
                     /\ (pkt.count = 2 * NUM_CORE)
                  THEN S7_DrivlistResponse(m, pkt)
                  ELSE m
        IN  IF (~pkt.cmd.auto) /\ (pkt.reg = S7_REG_BUTTONS) /\ (pkt.count = 1)
            THEN S7_ReadResponse(m1, pkt)
            ELSE IF m1.rsc["buttons"].bkey # 0
            THEN S7_Autosend(m1, pkt)
            ELSE m1

\* Initialize(pslot) after a successful malloc: lastbutton and drivlist are
\* not set and hold whatever the allocation held (g)
S7_Initialize(g, txret) ==
    LET m0 == [ctx  |-> [ptimer |-> 0, rgb |-> 0, lastbutton |-> g,
                         drivlist |-> [i \in 0 .. (NUM_CORE - 1) |-> g]],
               rsc  |-> [r \in S7Rsc |-> [uilock |-> NOLOCK, bkey |-> 0]],
               tq   |-> {},
               subs |-> {},
               out  |-> EmptyOut]
    IN  getdriverlist(m0, txret)

\* the slot as the daemon hands it to Initialize: no private context, no
\* resource configured, no timer, no monitoring session
NotLoaded ==
    [ctx |-> <<>>, rsc |-> <<>>, tq |-> {}, subs |-> {}, out |-> EmptyOut]

\* Initialize that goes on to read the driver list after a failed malloc
S7_Load_sendsAnyway(mem, g, txret) ==
    IF mem = 0
    THEN [ret |-> -1, pcb |-> "none",
          m |-> getdriverlist(
                    [pclog(NotLoaded,
                           "memory allocation failure in cmods7 initialization")
                     EXCEPT !.ctx = [ptimer |-> 0]], txret)]
    ELSE [ret |-> 0, pcb |-> "cmods7", m |-> S7_Initialize(g, txret)]

\* Initialize(pslot), mem being what malloc returned (0: null): its return
\* value, the packet handler it registered on the core, and the slot
S7_Load(mem, g, txret) ==
    IF mem = 0
    THEN [ret |-> -1, pcb |-> "none",
          m |-> pclog(NotLoaded,
                      "memory allocation failure in cmods7 initialization")]
    ELSE [ret |-> 0, pcb |-> "cmods7", m |-> S7_Initialize(g, txret)]

---------------------------------------------------------------------------
(* dgspi: the generic SPI interface *)

SpiRsc == {"data", "config", "polltime", "polldata"}

\* the resources' capability flags as Initialize sets them
SpiFlags(r) ==
    CASE r = "data" -> {IS_READABLE}
      [] r = "config" -> {IS_READABLE, IS_WRITABLE}
      [] r = "polltime" -> {IS_READABLE, IS_WRITABLE}
      [] r = "polldata" -> {CAN_BROADCAST}

\* send_spi(pCtx, type): a write packet with the configuration, or with the
\* count and the bytes of the SPI packet
send_spi(m, type, txret) ==
    LET c   == m.ctx
        pkt == IF type = SENDCONFIG
               THEN [cmd |-> WriteCmd, reg |-> DGSPI_REG_MODE, count |-> 2,
                     data |-> <<BitOr(BitOr(c.clksrc * 64, c.csmode * 4),
                                      c.sckpol * 2) % 256,
                                c.polltime % 256>>]
               ELSE [cmd |-> WriteCmd, reg |-> DGSPI_REG_COUNT,
                     count |-> (1 + c.nbxfer) % 256,
                     data |-> <<(1 + c.nbxfer) % 256>>
                              \o [i \in 1 .. c.nbxfer |-> c.bxfer[i - 1]]]
    IN  pc_tx_pkt(m, pkt, 4 + pkt.count, txret)

RECURSIVE SpiParse(_, _, _)
\* cb_data's loop over the tokens of val: each token is scanned with "%x"
\* into tmp (left as it was when the token is no hex number; tmp starts
\* unset) and its low byte is stored; at most DGSPI_NDATA_BYTE - 2 bytes
SpiParse(m, toks, tmp) ==
    IF toks = <<>> THEN m
    ELSE LET sc == ScanHex(Head(toks))
             t  == IF sc.ret = 1 THEN sc.val ELSE tmp
             m1 == [m EXCEPT !.ctx.bxfer[m.ctx.nbxfer] = t % 256,
                             !.ctx.nbxfer = @ + 1]
         IN  IF m1.ctx.nbxfer = DGSPI_NDATA_BYTE - 2 THEN m1
             ELSE SpiParse(m1, Tail(toks), t)

\* cb_data(cmd, rscid, val, pslot, cn, plen, buf); g is what the unset tmp
\* holds
cb_data(m, cmd, val, cn, txret, g) ==
    IF cmd = PCGET THEN
        LET m1 == SpiParse(SetCtx(m, "nbxfer", 0), Strtok(val, <<>>, <<>>), g)
        IN  IF m1.ctx.nbxfer # 0 THEN
                LET m2 == send_spi(m1, SENDDATA, txret)
                IN  IF txret # 0 THEN Reply(m2, E_WRFPGA)
                    ELSE NoOutput([ArmWatchdog(m2) EXCEPT
                                      !.rsc["data"].uilock = CharCast(cn)])
            ELSE Reply(m1, E_BDVAL("data"))
    ELSE m

\* the first two characters of the word are the two of the name
SpiCsIs(word, name) == Len(word) >= 2 /\ <<word[1], word[2]>> = name

\* cb_config(cmd, rscid, val, pslot, cn, plen, buf)
cb_config(m, cmd, val, txret) ==
    IF cmd = PCSET THEN
        LET s1   == ScanDec(val)
            s2   == ScanDec(s1.rest)
            ibuf == ScanWord(s2.rest)
            newcsmode ==
                IF SpiCsIs(ibuf, <<"a", "l">>) THEN CS_MODE_AL
                ELSE IF SpiCsIs(ibuf, <<"a", "h">>) THEN CS_MODE_AH
                ELSE IF SpiCsIs(ibuf, <<"f", "l">>) THEN CS_MODE_FL
                ELSE IF SpiCsIs(ibuf, <<"f", "h">>) THEN CS_MODE_FH
                ELSE -1
            newclk == IF s1.val >= 2000000 THEN CLK_2M
                      ELSE IF s1.val >= 1000000 THEN CLK_1M
                      ELSE IF s1.val >= 500000 THEN CLK_500K
                      ELSE CLK_100K
            newpol == IF s2.val = 0 THEN 0 ELSE 1
        IN  IF s1.ret # 1 \/ s2.ret # 1 \/ ibuf = <<>>
            THEN Reply(m, E_BDVAL("config"))
            ELSE IF (s1.val < 5000) \/ (newcsmode < 0) \/ (newcsmode > 3)
            THEN Reply(m, E_BDVAL("config"))
            ELSE LET m1 == send_spi([m EXCEPT !.ctx.csmode = newcsmode,
                                              !.ctx.clksrc = newclk,
                                              !.ctx.sckpol = newpol],
                                    SENDCONFIG, txret)
                 IN  IF txret # 0 THEN Reply(m1, E_WRFPGA) ELSE m1
    ELSE
        LET c == m.ctx
            newclk == IF c.clksrc = CLK_2M THEN 2000000
                      ELSE IF c.clksrc = CLK_1M THEN 1000000
                      ELSE IF c.clksrc = CLK_500K THEN 500000
                      ELSE 100000
            head == FmtDec(newclk) \o " " \o FmtDec(c.sckpol)
        IN  IF c.csmode = CS_MODE_AL THEN Reply(m, head \o " al\n")
            ELSE IF c.csmode = CS_MODE_AH THEN Reply(m, head \o " ah\n")
            ELSE IF c.csmode = CS_MODE_FL THEN Reply(m, head \o " fl\n")
            ELSE IF c.csmode = CS_MODE_FH THEN Reply(m, head \o " fh\n")
            ELSE m

\* cb_polltime(cmd, rscid, val, pslot, cn, plen, buf)
cb_polltime(m, cmd, val, txret) ==
    IF cmd = PCGET THEN Reply(m, FmtDec(m.ctx.polltime) \o "\n")
    ELSE IF cmd = PCSET THEN
        LET sc == ScanDec(val)
        IN  IF sc.ret # 1 THEN Reply(m, E_BDVAL("polltime"))
            ELSE LET m1 == send_spi(SetCtx(m, "polltime", sc.val),
                                    SENDCONFIG, txret)
                 IN  IF txret # 0 THEN Reply(m1, E_WRFPGA) ELSE m1
    ELSE m

\* the pgscb callback of resource r
SpiCallback(m, cmd, r, val, cn, txret, g) ==
    CASE r = "data" -> cb_data(m, cmd, val, cn, txret, g)
      [] r = "config" -> cb_config(m, cmd, val, txret)
      [] r = "polltime" -> cb_polltime(m, cmd, val, txret)
      [] OTHER -> m

RECURSIVE SpiFmt(_, _, _)
\* the first n bytes as "%02x " each, then a newline
SpiFmt(data, i, n) ==
    IF i >= n THEN "\n"
    ELSE FmtHexW(data[i], 2) \o " " \o SpiFmt(data, i + 1, n)

\* SpiValidPkt with the count byte left out of the expected count
SpiValidPkt_countOffByOne(m, pkt) ==
    \/ pkt.cmd.auto /\ pkt.reg = DGSPI_REG_MODE
          /\ pkt.count = m.ctx.nbxfer
    \/ (~pkt.cmd.auto) /\ pkt.reg = DGSPI_REG_COUNT
          /\ pkt.count = m.ctx.nbxfer
    \/ (~pkt.cmd.auto) /\ pkt.reg = DGSPI_REG_MODE /\ pkt.count = 2

\* packet_hdlr's test for a packet the driver expects
SpiValidPkt(m, pkt) ==
    \/ pkt.cmd.auto /\ pkt.reg = DGSPI_REG_MODE
          /\ pkt.count = 1 + m.ctx.nbxfer
    \/ (~pkt.cmd.auto) /\ pkt.reg = DGSPI_REG_COUNT
          /\ pkt.count = 1 + m.ctx.nbxfer
    \/ (~pkt.cmd.auto) /\ pkt.reg = DGSPI_REG_MODE /\ pkt.count = 2

\* packet_hdlr, SPI data while the data resource is locked: the data goes
\* to the UI that holds the lock
Spi_DataToUi(m, ob) ==
    LET lock == m.rsc["data"].uilock
        m1   == prompt(send_ui(m, ob, lock), lock)
    IN  GotResponse([m1 EXCEPT !.rsc["data"].uilock = NOLOCK])

\* Spi_Autosend without the test of the key
Spi_Autosend_noKeyTest(m, ob) == bcst_ui(m, ob, "polldata")

\* packet_hdlr, SPI data from the autopoll: broadcast on polldata if its
\* key is set
Spi_Autosend(m, ob) ==
    IF m.rsc["polldata"].bkey # 0 THEN bcst_ui(m, ob, "polldata") ELSE m

\* packet_hdlr(pslot, pkt, len)
Spi_packet_hdlr(m, pkt) ==
    IF ~SpiValidPkt(m, pkt)
    THEN pclog(m, "invalid dgspi packet from board to host")
    ELSE IF ~pkt.cmd.auto THEN GotResponse(m)
    ELSE LET ob == SpiFmt(pkt.data, 0, m.ctx.nbxfer)
         IN  IF m.rsc["data"].uilock # NOLOCK THEN Spi_DataToUi(m, ob)
             ELSE Spi_Autosend(m, ob)

\* Initialize(pslot) after a successful malloc: nbxfer (n), bxfer and the
\* configuration (g) are not set and hold whatever the allocation held
Spi_Initialize(n, g) ==
    [ctx  |-> [ptimer |-> 0, polltime |-> 0, nbxfer |-> n,
               bxfer |-> [i \in 0 .. (DGSPI_NDATA_BYTE - 1) |-> g % 256],
               csmode |-> g, clksrc |-> g, sckpol |-> g],
     rsc  |-> [r \in SpiRsc |-> [uilock |-> NOLOCK, bkey |-> 0]],
     tq   |-> {},
     subs |-> {},
     out  |-> EmptyOut]

---------------------------------------------------------------------------
(* vgaterm: the VGA text terminal *)

VgaRsc == {"char", "cursor", "attr", "rowoff"}

\* the resources' capability flags as Initialize sets them
VgaFlags(r) == {IS_READABLE, IS_WRITABLE}

\* the character with code 0
NUL == ""

\* a send...tofpga routine reports a transport failure with
\* snprintf(buf, *plen, E_WRFPGA); Initialize calls it with plen and buf
\* null, and then the report dereferences a null pointer
ReportTxFail(m, nullbuf) ==
    IF nullbuf THEN [m EXCEPT !.out.fault = TRUE] ELSE Reply(m, E_WRFPGA)

\* the tail shared by the three send routines: hand the packet over,
\* report a failure, else start the watchdog
VgaSend(m, pkt, txret, nullbuf) ==
    LET m1 == pc_tx_pkt(m, pkt, 4 + pkt.count, txret)
    IN  IF txret # 0 THEN ReportTxFail(m1, nullbuf) ELSE ArmWatchdog(m1)

\* sendstringtofpga(pctx, plen, buf)
sendstringtofpga(m, txret, nullbuf) ==
    VgaSend(m, [cmd |-> [op |-> OP_WRITE, inc |-> FALSE, auto |-> FALSE],
                reg |-> VGA_REG_CHAR, count |-> m.ctx.charlen,
                data |-> SubSeq(m.ctx.charstr, 1, m.ctx.charlen)],
            txret, nullbuf)

\* sendcursortofpga(pctx, plen, buf)
sendcursortofpga(m, txret, nullbuf) ==
    LET c == m.ctx
    IN  VgaSend(m, [cmd |-> WriteCmd, reg |-> VGA_REG_CURCOL, count |-> 4,
                    data |-> <<(c.curcol - 1) % 256, (c.currow - 1) % 256,
                               c.rowoff % 256,
                               (IF c.curstyle = "b" THEN 1 ELSE 0)
                               + (IF c.curvisible = "v" THEN 2 ELSE 0)>>],
                txret, nullbuf)

\* sendattrtofpga(pctx, plen, buf)
sendattrtofpga(m, txret, nullbuf) ==
    LET c == m.ctx
    IN  VgaSend(m, [cmd |-> WriteCmd, reg |-> VGA_REG_FGRGB, count |-> 3,
                    data |-> <<c.fgclr % 256, c.bgclr % 256,
                               (IF c.underline = "u" THEN 1 ELSE 0)
                               + (IF c.blink = "b" THEN 2 ELSE 0)>>],
                txret, nullbuf)

\* userhdlr, pcget char and pcget cursor: send a read packet, start the
\* watchdog and lock the resource to the UI session cn
Vga_LiveGet(m, r, reg, count, cn, txret) ==
    LET pkt == [cmd |-> ReadCmd, reg |-> reg, count |-> count, data |-> <<>>]
        m1  == pc_tx_pkt(m, pkt, 4 + count, txret)
    IN  IF txret # 0 THEN Reply(m1, E_WRFPGA)
        ELSE NoOutput([ArmWatchdog(m1) EXCEPT !.rsc[r].uilock = CharCast(cn)])

\* userhdlr, pcset char: the string is the value as given
Vga_SetChar(m, val, txret) ==
    LET charlen == Len(val)
    IN  IF (charlen > NUMCOL) \/ (charlen < 1) THEN Reply(m, E_BDVAL("char"))
        ELSE sendstringtofpga([m EXCEPT !.ctx.charlen = charlen,
                                        !.ctx.charstr = val],
                              txret, FALSE)

\* userhdlr, pcset cursor; sc is what sscanf("%d %d %c %c") left in the
\* locals: the range test is made only when it did not assign all four
Vga_SetCursor(m, sc, txret) ==
    LET ccol    == sc.i1
        crow    == sc.i2
        style   == sc.c1
        visible == sc.c2
    IN  IF sc.n # 4
           /\ ((crow > NUMROW) \/ (ccol > NUMCOL) \/ (crow < 1) \/ (ccol < 1)
               \/ (style # "b" /\ style # "u")
               \/ (visible # "v" /\ visible # "i"))
        THEN Reply(m, E_BDVAL("cursor"))
        ELSE sendcursortofpga([m EXCEPT !.ctx.currow = crow,
                                        !.ctx.curcol = ccol,
                                        !.ctx.curstyle = style,
                                        !.ctx.curvisible = visible],
                              txret, FALSE)

\* userhdlr, pcget attr
Vga_GetAttr(m) ==
    LET c == m.ctx
    IN  Reply(m, FmtHex3(c.fgclr) \o " " \o FmtHex3(c.bgclr) \o " "
                 \o c.underline \o " " \o c.blink \o "\n")

\* userhdlr, pcset attr; sc is what sscanf("%x %x %c %c") left in the locals
Vga_SetAttr(m, sc, txret) ==
    LET under == sc.c1
        blnk  == sc.c2
    IN  IF sc.n # 4
           /\ ((under # "u" /\ under # "n") \/ (blnk # "b" /\ blnk # "n"))
        THEN Reply(m, E_BDVAL("attr"))
        ELSE sendattrtofpga([m EXCEPT !.ctx.fgclr = sc.i1,
                                      !.ctx.bgclr = sc.i2,
                                      !.ctx.underline = under,
                                      !.ctx.blink = blnk],
                            txret, FALSE)

\* userhdlr, pcset rowoff; sc is the result of sscanf("%d")
Vga_SetRowoff(m, sc, txret, g) ==
    LET newoff == IF sc.ret = 1 THEN sc.val ELSE g.int
    IN  IF sc.ret # 1 /\ ((newoff < 0) \/ (newoff >= NUMROW))
        THEN Reply(m, E_BDVAL("rowoff"))
        ELSE sendcursortofpga(SetCtx(m, "rowoff", newoff), txret, FALSE)

\* userhdlr(cmd, rscid, val, pslot, cn, plen, buf); g is what the unset
\* locals hold
Vga_userhdlr(m, cmd, rscid, val, cn, txret, g) ==
    IF cmd = PCGET /\ rscid = "char"
    THEN Vga_LiveGet(m, "char", VGA_REG_CHAR, 8, cn, txret)
    ELSE IF cmd = PCSET /\ rscid = "char" THEN Vga_SetChar(m, val, txret)
    ELSE IF cmd = PCGET /\ rscid = "cursor"
    THEN Vga_LiveGet(m, "cursor", VGA_REG_CURCOL, 4, cn, txret)
    ELSE IF cmd = PCSET /\ rscid = "cursor"
    THEN Vga_SetCursor(m, Scan4(val, FALSE, g), txret)
    ELSE IF cmd = PCGET /\ rscid = "attr" THEN Vga_GetAttr(m)
    ELSE IF cmd = PCSET /\ rscid = "attr" THEN Vga_SetAttr(m, Scan4(val, TRUE, g), txret)
    ELSE IF cmd = PCSET /\ rscid = "rowoff"
    THEN Vga_SetRowoff(m, ScanDec(val), txret, g)
    ELSE m

\* Vga_ReadResponse that gives up the locks of char and cursor alike
Vga_ReadResponse_clearsBoth(m, r, text) ==
    LET lock == m.rsc[r].uilock
        m1   == prompt(send_ui(m, text, lock), lock)
    IN  GotResponse([m1 EXCEPT !.rsc["char"].uilock = NOLOCK,
                               !.rsc["cursor"].uilock = NOLOCK])

\* packet_hdlr, a read response: send the text to the UI that holds the
\* lock of resource r, clear the lock, clear the timer
Vga_ReadResponse(m, r, text) ==
    LET lock == m.rsc[r].uilock
        m1   == prompt(send_ui(m, text, lock), lock)
    IN  GotResponse([m1 EXCEPT !.rsc[r].uilock = NOLOCK])

\* the reply to pcget cursor: "%3d %3d %c %c\n"
VgaFmtCursor(data) ==
    FmtDec3(1 + data[0]) \o " " \o FmtDec3(1 + data[1]) \o " "
    \o (IF data[3] % 2 = 0 THEN "u" ELSE "b") \o " "
    \o (IF (data[3] \div 2) % 2 = 0 THEN "i" ELSE "v") \o "\n"

\* the reply to pcget char: "0x%02x 0x%02x 0x%02x %c %c\n"
VgaFmtChar(data) ==
    "0x" \o FmtHexW(data[0], 2) \o " 0x" \o FmtHexW(data[5], 2)
    \o " 0x" \o FmtHexW(data[6], 2) \o " "
    \o (IF data[7] % 2 = 0 THEN "n" ELSE "u") \o " "
    \o (IF (data[7] \div 2) % 2 = 0 THEN "n" ELSE "b") \o "\n"

\* packet_hdlr, the write response: clear the timer
Vga_WriteResponse(m) ==
    IF m.ctx.ptimer # 0 THEN GotResponse(m) ELSE m

\* packet_hdlr(pslot, pkt, len)
Vga_packet_hdlr(m, pkt) ==
    IF pkt.cmd.op = OP_WRITE THEN Vga_WriteResponse(m)
    ELSE IF (~pkt.cmd.auto) /\ pkt.reg = VGA_REG_CURCOL
    THEN Vga_ReadResponse(m, "cursor", VgaFmtCursor(pkt.data))
    ELSE IF (~pkt.cmd.auto) /\ pkt.reg = VGA_REG_CHAR
    THEN Vga_ReadResponse(m, "char", VgaFmtChar(pkt.data))
    ELSE pclog(m, "invalid vgaterm packet from board to host")

\* Initialize(pslot) after a successful malloc: charlen and charstr are not
\* set (g); the cursor and then the attributes are sent to the card with
\* null plen and buf, the second only if the first did not fault
Vga_Initialize(g, t1, t2) ==
    LET m0 == [ctx  |-> [ptimer |-> 0, currow |-> 1, curcol |-> 1,
                         rowoff |-> 0, curvisible |-> NUL, curstyle |-> NUL,
                         fgclr |-> 63, bgclr |-> 0,
                         underline |-> "n", blink |-> "n",
                         charlen |-> g, charstr |-> <<>>],
               rsc  |-> [r \in VgaRsc |-> [uilock |-> NOLOCK, bkey |-> 0]],
               tq   |-> {},
               subs |-> {},
               out  |-> EmptyOut]
        m1 == sendcursortofpga(m0, t1, TRUE)
    IN  IF m1.out.fault THEN m1 ELSE sendattrtofpga(m1, t2, TRUE)

---------------------------------------------------------------------------
(* ps2: the PS/2 keyboard and mouse interface *)

Ps2Rsc == {"data"}

\* the resource's capability flags as Initialize sets them
Ps2Flags(r) == {IS_WRITABLE, CAN_BROADCAST}

\* bit i (1 is the least significant) of the int v: (v >> (i - 1)) & 1
Ps2Bit(v, i) == (v \div (2 ^ (i - 1))) % 2

\* odd parity over the eight data bits of v
Ps2Parity(v) ==
    (1 + Ps2Bit(v, 1) + Ps2Bit(v, 2) + Ps2Bit(v, 3) + Ps2Bit(v, 4)
       + Ps2Bit(v, 5) + Ps2Bit(v, 6) + Ps2Bit(v, 7) + Ps2Bit(v, 8)) % 2

\* the eleven registers of one byte on the wire: start bit, eight data
\* bits least significant first, parity, stop bit
Ps2Frame(v) ==
    <<0>> \o [i \in 1 .. 8 |-> Ps2Bit(v, i)] \o <<Ps2Parity(v), 1>>

\* ps2xmit(cmd, rscid, val, pslot, cn, plen, buf): send the byte the user
\* gave to the keyboard
ps2xmit(m, cmd, val, txret) ==
    LET sc  == ScanHex(val)
        pkt == [cmd |-> WriteCmd, reg |-> PS2_REG_DATA, count |-> 11,
                data |-> Ps2Frame(sc.val)]
    IN  IF cmd # PCSET THEN m
        ELSE IF sc.ret # 1 THEN Reply(m, E_BDVAL("data"))
        ELSE IF txret # 0
        THEN Reply(pc_tx_pkt(m, pkt, 4 + pkt.count, txret), E_WRFPGA)
        ELSE NoOutput(ArmWatchdog(pc_tx_pkt(m, pkt, 4 + pkt.count, txret)))

\* the scan code in the frame that starts at data[b]: bit 8 is the most
\* significant
Ps2Value(data, b) ==
    data[b + 1] + (2 * data[b + 2]) + (4 * data[b + 3]) + (8 * data[b + 4])
    + (16 * data[b + 5]) + (32 * data[b + 6]) + (64 * data[b + 7])
    + (128 * data[b + 8])

\* the parity computed over the frame that starts at data[b]
Ps2RxParity(data, b) ==
    (1 + data[b + 1] + data[b + 2] + data[b + 3] + data[b + 4]
       + data[b + 5] + data[b + 6] + data[b + 7] + data[b + 8]) % 2

\* the sanity check of one received frame
Ps2FrameOk(data, b) ==
    /\ data[b] = 0
    /\ data[b + 9] = Ps2RxParity(data, b)
    /\ data[b + 10] = 1

RECURSIVE Ps2Text(_, _, _)
\* the output string from frame i on: "%02x " for each byte, then "\n"
Ps2Text(data, i, nchar) ==
    IF i >= nchar THEN "\n"
    ELSE FmtHexW(Ps2Value(data, i * 11), 2) \o " " \o Ps2Text(data, i + 1, nchar)

\* packet_hdlr(pslot, pkt, len)
Ps2_packet_hdlr(m, pkt) ==
    IF (~pkt.cmd.auto) /\ pkt.reg = PS2_REG_DATA /\ pkt.count = 11
    THEN del_timer(m, m.ctx.ptimer)
    ELSE IF pkt.cmd.op # OP_READ \/ pkt.reg # PS2_REG_DATA
            \/ pkt.count % 11 # 0
    THEN pclog(m, "invalid ps2 packet from board to host")
    ELSE IF \E i \in 0 .. ((pkt.count \div 11) - 1) :
                ~Ps2FrameOk(pkt.data, i * 11)
    THEN pclog(m, "invalid ps2 packet from board to host")
    ELSE IF m.rsc["data"].bkey # 0
    THEN bcst_ui(m, Ps2Text(pkt.data, 0, pkt.count \div 11), "data")
    ELSE m

\* Initialize(pslot) after a successful malloc: ptimer is not set and
\* holds whatever the allocation held (g)
Ps2_Initialize(g) ==
    [ctx  |-> [ptimer |-> g],
     rsc  |-> [r \in Ps2Rsc |-> [uilock |-> NOLOCK, bkey |-> 0]],
     tq   |-> {},
     subs |-> {},
     out  |-> EmptyOut]

---------------------------------------------------------------------------
(* cvcc: the constant voltage, constant current regulator *)

CvccRsc == {"viin", "viout", "conf"}

\* the resources' capability flags as Initialize sets them
CvccFlags(r) ==
    CASE r = "viin" -> {IS_READABLE, CAN_BROADCAST}
      [] r = "viout" -> {IS_READABLE, IS_WRITABLE}
      [] r = "conf" -> {IS_READABLE, IS_WRITABLE}

\* the resources Initialize gives the get/set callback; viin gets none
CvccHasPgscb(r) == r # "viin"

\* printf("%3.1f", num / den) for num >= 0 and den > 0: the value to the
\* nearest tenth
FmtF1(num, den) ==
    LET t == ((20 * num) + den) \div (2 * den)
    IN  FmtDecU(t \div 10) \o "." \o HexDigits[(t % 10) + 1]

RECURSIVE Pow10(_)
Pow10(k) == IF k = 0 THEN 1 ELSE 10 * Pow10(k - 1)

\* sscanf(val, "%f", &v) for a number written as digits with an optional
\* sign and fraction: the float is num / den
ScanFloat(val) ==
    LET s0  == SkipSpace(val)
        neg == s0 # <<>> /\ Head(s0) = "-"
        s1  == IF s0 # <<>> /\ Head(s0) \in {"-", "+"} THEN Tail(s0) ELSE s0
        p   == DecPrefix(s1, 0, 0)
        f   == IF p.rest # <<>> /\ Head(p.rest) = "."
               THEN DecPrefix(Tail(p.rest), 0, 0)
               ELSE [n |-> 0, val |-> 0, rest |-> p.rest]
        num == (p.val * Pow10(f.n)) + f.val
    IN  IF s0 = <<>> THEN [ret |-> -1, num |-> 0, den |-> 1, rest |-> s0]
        ELSE IF p.n + f.n = 0 THEN [ret |-> 0, num |-> 0, den |-> 1, rest |-> s0]
        ELSE [ret |-> 1, num |-> IF neg THEN 0 - num ELSE num,
              den |-> Pow10(f.n), rest |-> f.rest]

\* sendconfigtofpga(pctx, plen, buf): with plen and buf null the report of
\* a transport failure dereferences a null pointer
sendconfigtofpga(m, txret, nullbuf) ==
    LET c   == m.ctx
        pkt == [cmd |-> WriteCmd, reg |-> CVCC_REG_VIOUT, count |-> 5,
                data |-> <<(c.vout \div 256) % 256, c.vout % 256,
                           (c.iout \div 256) % 256, c.iout % 256,
                           IF c.vout # 0 /\ c.iout # 0 THEN 1 ELSE 0>>]
        m1  == pc_tx_pkt(m, pkt, 4 + pkt.count, txret)
    IN  IF txret # 0 THEN ReportTxFail(m1, nullbuf) ELSE ArmWatchdog(m1)

\* usercmd, pcget viin: the load voltage and current held in the context
Cvcc_GetViin(m) ==
    Reply(m, FmtF1(m.ctx.vin, FULLSCALE) \o " "
             \o FmtF1(m.ctx.iin, FULLSCALE) \o "\n")

\* usercmd, pcget viout
Cvcc_GetViout(m) ==
    Reply(m, FmtF1(m.ctx.vout, FULLSCALE) \o " "
             \o FmtF1(m.ctx.iout, FULLSCALE) \o "\n")

\* usercmd, pcset viout; v and i are the results of the two %f conversions
Cvcc_SetViout(m, v, i, txret) ==
    IF (v.ret # 1) \/ (i.ret # 1)
       \/ (v.num < 0) \/ (v.num > 100 * v.den)
       \/ (i.num < 0) \/ (i.num > 100 * i.den)
    THEN Reply(m, E_BDVAL("viout"))
    ELSE sendconfigtofpga(
             [m EXCEPT !.ctx.vout = (v.num * FULLSCALE) \div (v.den * 100),
                       !.ctx.iout = (i.num * FULLSCALE) \div (i.den * 100)],
             txret, FALSE)

\* the second %f conversion is tried only after the first has assigned
Cvcc_Scan2(a, val) ==
    IF a.ret # 1 THEN [ret |-> 0, num |-> 0, den |-> 1, rest |-> val]
    ELSE ScanFloat(a.rest)

\* usercmd(cmd, rscid, val, pslot, cn, plen, buf)
Cvcc_usercmd(m, cmd, rscid, val, txret) ==
    IF cmd = PCGET /\ rscid = "viin" THEN Cvcc_GetViin(m)
    ELSE IF cmd = PCGET /\ rscid = "viout" THEN Cvcc_GetViout(m)
    ELSE IF cmd = PCSET /\ rscid = "viout"
    THEN Cvcc_SetViout(m, ScanFloat(val), Cvcc_Scan2(ScanFloat(val), val), txret)
    ELSE m

\* the 16 bit number in data[i], data[i + 1]
Word16(data, i) == (data[i] * 256) + data[i + 1]

\* packet_hdlr, the line broadcast for a viin packet whose period is not
\* zero: "%3.1f %3.1f %3.1f %3.1f\n"
CvccFmtLoad(data) ==
    FmtF1(100 * Word16(data, 0), Word16(data, 6)) \o " "
    \o FmtF1(100 * Word16(data, 2), Word16(data, 6)) \o " "
    \o FmtF1(100 * Word16(data, 4), Word16(data, 6)) \o " "
    \o FmtF1(1600000, Word16(data, 6)) \o "\n"

\* packet_hdlr(pslot, pkt, len)
Cvcc_packet_hdlr(m, pkt) ==
    IF pkt.cmd.op = OP_WRITE
    THEN (IF m.ctx.ptimer # 0 THEN GotResponse(m) ELSE m)
    ELSE IF pkt.reg # CVCC_REG_VIIN \/ pkt.count # 8
    THEN pclog(m, "invalid cvcc packet from board to host")
    ELSE IF m.rsc["viin"].bkey # 0
    THEN bcst_ui(m, CvccFmtLoad(pkt.data), "viin")
    ELSE m

\* Initialize(pslot) after a successful malloc: vin and iin are not set and
\* hold whatever the allocation held (g); the configuration is sent with
\* null plen and buf
Cvcc_Initialize(g, txret) ==
    sendconfigtofpga(
        [ctx  |-> [ptimer |-> 0, vin |-> g, iin |-> g, vout |-> 0, iout |-> 0],
         rsc  |-> [r \in CvccRsc |-> [uilock |-> NOLOCK, bkey |-> 0]],
         tq   |-> {},
         subs |-> {},
         out  |-> EmptyOut],
        txret, TRUE)

\* Initialize(pslot), mem being what malloc returned (0: null)
Cvcc_Load(mem, g, txret) ==
    IF mem = 0
    THEN [ret |-> -1, pcb |-> "none",
          m |-> pclog(NotLoaded,
                      "memory allocation failure in cvcc initialization")]
    ELSE [ret |-> 0, pcb |-> "cvcc", m |-> Cvcc_Initialize(g, txret)]

---------------------------------------------------------------------------
(* isl29125: the RGB color sensor on an I2C bus *)

IslRsc == {"bus", "period", "colors"}

\* the resources' capability flags as Initialize sets them
IslFlags(r) ==
    CASE r = "bus" -> {IS_READABLE, IS_WRITABLE}
      [] r = "period" -> {IS_READABLE, IS_WRITABLE}
      [] r = "colors" -> {CAN_BROADCAST}

\* close(fd), del_fd(fd)
syscall(m, fn, fd) == [m EXCEPT !.out.sys = Append(@, [fn |-> fn, fd |-> fd])]

\* get_islfd(pctx): open or reopen the FD to the I2C bus; io gives what
\* open, ioctl and the configuration write return
get_islfd(m, io) ==
    LET old == m.ctx.islfd
        m1  == IF old >= 0
               THEN SetCtx(syscall(syscall(m, "del_fd", old), "close", old),
                           "islfd", -1)
               ELSE m
    IN  IF io.open < 0
        THEN pclog(SetCtx(m1, "islfd", io.open),
                   "I2C bus could not be opened for read/write.  Permissions?")
        ELSE IF io.ioctl < 0
        THEN pclog(SetCtx(syscall(m1, "close", io.open), "islfd", -1),
                   "ISL29125 not found on I2C bus.")
        ELSE IF io.write < 2
        THEN pclog(SetCtx(m1, "islfd", io.open), "Config write to ISL29125 failed")
        ELSE SetCtx(m1, "islfd", io.open)

\* usercmd, pcset bus
Isl_SetBus(m, sc, io) ==
    IF (sc.ret # 1) \/ (sc.val < 0) \/ (sc.val > 20)
    THEN Reply(m, E_BDVAL("bus"))
    ELSE get_islfd(SetCtx(m, "bus", sc.val), io)

\* usercmd, pcset period: delete the old timer and create a new one with
\* the new period
Isl_SetPeriod(m, sc) ==
    IF (sc.ret # 1) \/ (sc.val < 0) \/ (sc.val > 5000)
    THEN Reply(m, E_BDVAL("period"))
    ELSE LET m1 == SetCtx(m, "period", sc.val)
             m2 == IF m1.ctx.ptimer # 0 THEN del_timer(m1, m1.ctx.ptimer) ELSE m1
         IN  IF sc.val # 0
             THEN SetCtx(add_timer(m2, "PC_PERIODIC", sc.val, FreeTimer(m2.tq)),
                         "ptimer", FreeTimer(m2.tq))
             ELSE m2

\* usercmd(cmd, rscid, val, pslot, cn, plen, buf)
Isl_usercmd(m, cmd, rscid, val, io) ==
    IF cmd = PCGET /\ rscid = "bus" THEN Reply(m, FmtDec(m.ctx.bus) \o "\n")
    ELSE IF cmd = PCSET /\ rscid = "bus" THEN Isl_SetBus(m, ScanDec(val), io)
    ELSE IF cmd = PCGET /\ rscid = "period"
    THEN Reply(m, FmtDec(m.ctx.period) \o "\n")
    ELSE IF cmd = PCSET /\ rscid = "period" THEN Isl_SetPeriod(m, ScanDec(val))
    ELSE m

\* the line broadcast for one reading: "%04x %04x %04x\n" of red, green
\* and blue, each from two bytes, low byte first
IslFmtColors(in) ==
    FmtHexW((in[12] * 256) + in[11], 4) \o " "
    \o FmtHexW((in[10] * 256) + in[9], 4) \o " "
    \o FmtHexW((in[14] * 256) + in[13], 4) \o "\n"

\* colorscb that gives up on EAGAIN as on any other error
colorscb_noRetry(m, wret, rd) ==
    LET m1 == IF wret < 1 THEN pclog(m, "Failed to set ISL29125 read register")
              ELSE m
        fd == m.ctx.islfd
    IN  IF rd.count < 0
        THEN pclog(SetCtx(del_timer(SetCtx(syscall(syscall(m1, "close", fd),
                                                   "del_fd", fd),
                                           "islfd", -1),
                                    m.ctx.ptimer),
                          "ptimer", 0),
                   "Error reading I2C device.  Device disabled")
        ELSE IF rd.data[0] # ISL_ID
        THEN pclog(m1, "Error reading I2C device.  Retrying ...")
        ELSE IF m1.rsc["colors"].bkey # 0
        THEN bcst_ui(m1, IslFmtColors(rd.data), "colors")
        ELSE m1

\* colorscb(timer, pctx): the poll timer's callback; wret is what the write
\* of the register number returned, rd what the read returned (count, errno
\* and the bytes read)
colorscb(m, wret, rd) ==
    LET m1 == IF wret < 1 THEN pclog(m, "Failed to set ISL29125 read register")
              ELSE m
        fd == m.ctx.islfd
    IN  IF rd.count < 0
        THEN IF rd.errno = "EAGAIN" THEN m1
             ELSE pclog(SetCtx(del_timer(SetCtx(syscall(syscall(m1, "close", fd),
                                                        "del_fd", fd),
                                                "islfd", -1),
                                         m.ctx.ptimer),
                               "ptimer", 0),
                        "Error reading I2C device.  Device disabled")
        ELSE IF rd.data[0] # ISL_ID
        THEN pclog(m1, "Error reading I2C device.  Retrying ...")
        ELSE IF m1.rsc["colors"].bkey # 0
        THEN bcst_ui(m1, IslFmtColors(rd.data), "colors")
        ELSE m1

\* Initialize(pslot) after a successful malloc
Isl_Initialize ==
    [ctx  |-> [ptimer |-> 0, bus |-> 0, period |-> 0, islfd |-> -1],
     rsc  |-> [r \in IslRsc |-> [uilock |-> NOLOCK, bkey |-> 0]],
     tq   |-> {},
     subs |-> {},
     out  |-> EmptyOut]

---------------------------------------------------------------------------
(* The runber driver: switches, RGB LED and four 7-segment digits *)

RunRsc == {"rgb", "switches", "display", "segments", "drivlist"}

\* the resources' capability flags as Initialize sets them
RunFlags(r) ==
    CASE r = "rgb" -> {IS_READABLE, IS_WRITABLE}
      [] r = "switches" -> {IS_READABLE, CAN_BROADCAST}
      [] r = "display" -> {IS_READABLE, IS_WRITABLE}
      [] r = "segments" -> {IS_READABLE, IS_WRITABLE}
      [] r = "drivlist" -> {IS_READABLE}

\* symbols[]: the 7-segment value of a character, 0 for one not in the table
SegVal(c) ==
    CASE c = "0" -> 63 [] c = "1" -> 6 [] c = "2" -> 91 [] c = "3" -> 79
      [] c = "4" -> 102 [] c = "5" -> 109 [] c = "6" -> 125 [] c = "7" -> 7
      [] c = "8" -> 127 [] c = "9" -> 103
      [] c \in {"a", "A"} -> 119 [] c \in {"b", "B"} -> 124
      [] c \in {"c", "C"} -> 57 [] c \in {"d", "D"} -> 94
      [] c \in {"e", "E"} -> 121 [] c \in {"f", "F"} -> 113
      [] c = "o" -> 92 [] c = "L" -> 56 [] c = "r" -> 80 [] c = "h" -> 116
      [] c = "H" -> 118 [] c = "-" -> 64 [] c = "_" -> 8 [] c = "u" -> 28
      [] OTHER -> 0

\* text[k], the characters after the end of the string being NUL
RunTextAt(text, k) == IF k < Len(text) THEN text[k + 1] ELSE NUL

RECURSIVE text_to_segs(_, _, _, _)
\* text_to_segs(text, segs) from digit i and character k on: a character
\* followed by a '.' takes the decimal point (the MSB) and both are consumed
text_to_segs(text, i, k, segs) ==
    IF i >= NDIGITS THEN segs
    ELSE IF (RunTextAt(text, k) # ".") /\ (RunTextAt(text, k + 1) = ".")
    THEN text_to_segs(text, i + 1, k + 2,
             [segs EXCEPT ![i] = BitOr(SegVal(RunTextAt(text, k)), 128)])
    ELSE text_to_segs(text, i + 1, k + 1,
             [segs EXCEPT ![i] = SegVal(RunTextAt(text, k))])

RECURSIVE RunStr(_)
\* printf("%s") of the characters of text
RunStr(text) == IF text = <<>> THEN "" ELSE Head(text) \o RunStr(Tail(text))

\* runbertofpga(pctx): send both the rgb LED values and the seven segment
\* values to the FPGA, then start the watchdog
runbertofpga(m, txret) ==
    LET pkt == [cmd |-> WriteCmd, reg |-> RUNBR_REG_RED, count |-> 6,
                data |-> <<m.ctx.red % 256,
                           BitOr(m.ctx.green * 16, m.ctx.blue) % 256,
                           m.ctx.segs[0] % 256, m.ctx.segs[1] % 256,
                           m.ctx.segs[2] % 256, m.ctx.segs[3] % 256>>]
    IN  ArmWatchdog(pc_tx_pkt(m, pkt, 4 + pkt.count, txret))

\* usercmd, pcset display: keep the first 2 * NDIGITS characters, convert
\* them to segments and send them down
Run_SetDisplay(m, val, txret) ==
    LET text == SubSeq(val, 1, IF Len(val) < 2 * NDIGITS THEN Len(val)
                               ELSE 2 * NDIGITS)
        m1   == runbertofpga(
                    [m EXCEPT !.ctx.text = text,
                              !.ctx.segs = text_to_segs(text, 0, 0, @)], txret)
    IN  IF txret # 0 THEN Reply(m1, E_WRFPGA) ELSE m1

\* usercmd, pcget switches: send a read packet for the switch registers,
\* start the watchdog and lock the resource to the UI session cn
Run_GetSwitches(m, cn, txret) ==
    LET pkt == [cmd |-> ReadCmd, reg |-> RUNBR_REG_SWITCH, count |-> 2,
                data |-> <<>>]
        m1  == pc_tx_pkt(m, pkt, 4, txret)
    IN  IF txret # 0 THEN Reply(m1, E_WRFPGA)
        ELSE NoOutput([ArmWatchdog(m1) EXCEPT
                          !.rsc["switches"].uilock = CharCast(cn)])

\* usercmd, pcset rgb: scan the value as hex, split it in three nibbles and
\* send them down
Run_SetRgb(m, val, txret) ==
    LET sc  == ScanHex(val)
        rgb == sc.val
    IN  IF (sc.ret # 1) \/ (rgb < 0) \/ (rgb > 4095)
        THEN Reply(m, E_BDVAL("rgb"))
        ELSE LET m1 == runbertofpga(
                           [m EXCEPT !.ctx.red = rgb \div 256,
                                     !.ctx.green = (rgb \div 16) % 16,
                                     !.ctx.blue = rgb % 16], txret)
             IN  IF txret # 0 THEN Reply(m1, E_WRFPGA) ELSE m1

\* usercmd, pcset segments: sscanf(val, "%x %x %x %x", &segs3, &segs2,
\* &segs1, &segs0), each value in 0 .. 0xff, stored as segs[0] = segs0 ..
\* segs[3] = segs3 and sent down
Run_SetSegments(m, val, txret) ==
    LET got == Sscanf(val, <<"x", "x", "x", "x">>, <<>>)
    IN  IF (Len(got) # 4) \/ (\E i \in 1 .. 4 : got[i] < 0 \/ got[i] > 255)
        THEN Reply(m, E_BDVAL("segments"))
        ELSE LET m1 == runbertofpga(
                           [m EXCEPT !.ctx.segs =
                               [i \in 0 .. (NDIGITS - 1) |-> got[NDIGITS - i]]],
                           txret)
             IN  IF txret # 0 THEN Reply(m1, E_WRFPGA) ELSE m1

\* usercmd, pcget segments: snprintf(buf, *plen, "%02x %02x\n", segs[0],
\* segs[1])
Run_GetSegments(m) ==
    Reply(m, FmtHexW(m.ctx.segs[0], 2) \o " " \o FmtHexW(m.ctx.segs[1], 2)
             \o "\n")

\* Core[i].driv_id: the daemon's table of the driver IDs it loaded
CoreDrivIds == [i \in 0 .. (NUM_CORE - 1) |-> 0]

\* usercmd(cmd, rscid, val, pslot, cn, plen, buf)
Run_usercmd(m, cmd, rscid, val, cn, txret) ==
    IF cmd = PCSET /\ rscid = "display" THEN
        Run_SetDisplay(m, val, txret)
    ELSE IF cmd = PCGET /\ rscid = "display" THEN
        Reply(m, RunStr(m.ctx.text) \o "\n")
    ELSE IF cmd = PCGET /\ rscid = "drivlist" THEN
        IF m.out.plen < ((5 * NUM_CORE) + 10) THEN NoOutput(m)
        ELSE Reply(m, S7FmtDrivlist(CoreDrivIds, 0))
    ELSE IF cmd = PCGET /\ rscid = "switches" THEN
        Run_GetSwitches(m, cn, txret)
    ELSE IF cmd = PCSET /\ rscid = "rgb" THEN
        Run_SetRgb(m, val, txret)
    ELSE IF cmd = PCGET /\ rscid = "rgb" THEN
        Reply(m, FmtHex(m.ctx.red) \o FmtHex(m.ctx.green)
                 \o FmtHex(m.ctx.blue) \o "\n")
    ELSE IF cmd = PCSET /\ rscid = "segments" THEN
        Run_SetSegments(m, val, txret)
    ELSE IF cmd = PCGET /\ rscid = "segments" THEN
        Run_GetSegments(m)
    ELSE m

\* packet_hdlr, the read response to a pcget of the switches: send the two
\* bytes to the UI that holds the lock, clear the lock, clear the timer
Run_ReadResponse(m, pkt) ==
    LET lock == m.rsc["switches"].uilock
        text == FmtHexW(pkt.data[0], 2) \o " " \o FmtHexW(pkt.data[1], 2) \o "\n"
        m1   == prompt(send_ui(m, text, lock), lock)
    IN  GotResponse([m1 EXCEPT !.rsc["switches"].uilock = NOLOCK])

\* packet_hdlr(pslot, pkt, len)
Run_packet_hdlr(m, pkt) ==
    IF pkt.cmd.op = OP_WRITE THEN S7_WriteResponse(m)
    ELSE
        LET m1 == IF (~pkt.cmd.auto) /\ (pkt.reg = RUNBR_REG_DRIVLIST)
                     /\ (pkt.count = 2 * NUM_CORE)
                  THEN S7_DrivlistResponse(m, pkt)
                  ELSE m
        IN  IF (~pkt.cmd.auto) /\ (pkt.reg = RUNBR_REG_SWITCH) /\ (pkt.count = 2)
            THEN Run_ReadResponse(m1, pkt)
            ELSE IF (m1.rsc["switches"].bkey # 0) /\ (pkt.count = 2)
            THEN bcst_ui(m1, FmtHexW(pkt.data[0], 2) \o " "
                             \o FmtHexW(pkt.data[1], 2) \o "\n", "switches")
            ELSE m1

\* Initialize(pslot) after a successful malloc: ptimer and the LED values
\* are cleared; switches, text, segs and drivlist are not set and hold
\* whatever the allocation held (g, gtext)
Run_Initialize(g, gtext) ==
    [ctx  |-> [ptimer |-> 0, red |-> 0, green |-> 0, blue |-> 0,
               switches |-> g, text |-> gtext,
               segs |-> [i \in 0 .. (NDIGITS - 1) |-> g],
               drivlist |-> [i \in 0 .. (NUM_CORE - 1) |-> g]],
     rsc  |-> [r \in RunRsc |-> [uilock |-> NOLOCK, bkey |-> 0]],
     tq   |-> {},
     subs |-> {},
     out  |-> EmptyOut]

---------------------------------------------------------------------------
(* Inputs *)

\* values given to pcset period and pcset bus of isl29125
IslPeriodVals == {<<"5">>, <<"7">>, <<"0">>, <<"9", "9", "9", "9">>, <<"z">>}
IslBusVals == {<<"1">>, <<"3", "0">>}

\* what open, ioctl and write return in get_islfd: the bus opens as file
\* descriptor 3, or cannot be opened, or holds no sensor
IslOpens ==
    {[open |-> 3, ioctl |-> 0, write |-> 2],
     [open |-> -1, ioctl |-> 0, write |-> 2],
     [open |-> 3, ioctl |-> -1, write |-> 2]}

\* the 15 bytes of one reading: the device ID, then b in every register
IslBytes(id, b) == [i \in 0 .. (GETCOUNT - 1) |-> IF i = 0 THEN id ELSE b]

\* what read returns in colorscb on an open descriptor
IslReads ==
    {[count |-> GETCOUNT, errno |-> "", data |-> IslBytes(ISL_ID, 2)],
     [count |-> GETCOUNT, errno |-> "", data |-> IslBytes(0, 2)],
     [count |-> -1, errno |-> "EAGAIN", data |-> IslBytes(0, 0)],
     [count |-> -1, errno |-> "EIO", data |-> IslBytes(0, 0)]}

\* for the commands in which usercmd does not call get_islfd
IslNoOpen == [open |-> -1, ioctl |-> -1, write |-> -1]

\* what read returns on a descriptor that is not open
IslReadClosed == [count |-> -1, errno |-> "EBADF", data |-> IslBytes(0, 0)]

\* what malloc returns to Initialize: null, or a block
MallocRets == {0, 1}

\* answers of the transport to pc_tx_pkt
TxRets == {0, -1}

\* payload bytes of inbound packets
Bytes == {2, 31}

\* what freshly allocated, unset memory may hold
Garbage == {2, 4660}

\* values given to pcset rgb
S7Vals ==
    {<<"3">>, <<"7">>, <<"8">>, <<"z">>, <<>>,
     <<"-", "f", "f", "f", "f", "f", "f", "f", "9">>}

\* an inbound packet
Pkt(op, auto, reg, count, b) ==
    [cmd |-> [op |-> op, inc |-> TRUE, auto |-> auto], reg |-> reg,
     count |-> count, data |-> Fill(b)]

\* inbound packets on the cmods7 core: write responses, read responses and
\* autosend packets, of the shapes the driver knows and of others
S7Pkts ==
    {Pkt(OP_WRITE, FALSE, S7_REG_LEDS, 1, 2),
     Pkt(OP_WRITE, TRUE, S7_REG_BUTTONS, 1, 2),
     Pkt(OP_READ, FALSE, S7_REG_DRIVLIST, 2 * NUM_CORE, 31),
     Pkt(OP_READ, FALSE, S7_REG_LEDS, 1, 31),
     Pkt(OP_READ, FALSE, S7_REG_BUTTONS, 2, 31),
     Pkt(OP_READ, TRUE, S7_REG_DRIVLIST, 2 * NUM_CORE, 31),
     Pkt(OP_READ, TRUE, S7_REG_LEDS, 1, 2)}
    \cup {Pkt(OP_READ, a, S7_REG_BUTTONS, 1, b) : a \in BOOLEAN, b \in Bytes}

\* pcget commands: resource and the transport's answer if a packet is sent
S7GetArgs ==
    {<<"buttons", t>> : t \in TxRets} \cup {<<"rgb", 0>>, <<"drivlist", 0>>}

\* pcset commands: resource, value and the transport's answer
S7SetArgs ==
    {<<"rgb", v, t>> : v \in S7Vals, t \in TxRets}
    \cup {<<"buttons", <<"3">>, 0>>, <<"drivlist", <<"3">>, 0>>}

\* what the unset nbxfer of a fresh dgspi context may hold
SpiGarbageLen == {0, 2}

\* values given to pcget data: the SPI bytes to send
SpiDataVals == {<<"a">>, <<"1", " ", "f", "f">>, <<"z">>, <<>>}

\* values given to pcset config
SpiConfigVals ==
    {<<"5", "0", "0", "0", " ", "1", " ", "f", "h">>,
     <<"9", " ", "0", " ", "a", "l">>,
     <<"5", "0", "0", "0", " ", "1">>}

\* values given to pcset polltime
SpiPollVals == {<<"5">>, <<"x">>}

\* inbound packets on the dgspi core: SPI data for one and for two bytes,
\* write responses for data and for the configuration, and others
SpiPkts ==
    {Pkt(OP_READ, TRUE, DGSPI_REG_MODE, 2, b) : b \in Bytes}
    \cup {Pkt(OP_READ, TRUE, DGSPI_REG_MODE, 3, 2),
          Pkt(OP_WRITE, FALSE, DGSPI_REG_COUNT, 2, 2),
          Pkt(OP_WRITE, FALSE, DGSPI_REG_COUNT, 3, 2),
          Pkt(OP_WRITE, FALSE, DGSPI_REG_MODE, 2, 2),
          Pkt(OP_READ, FALSE, DGSPI_REG_MODE, 1, 2)}

\* pcget commands on dgspi: resource, value, transport's answer, unset tmp
SpiGetArgs ==
    {<<"data", v, 0, 2>> : v \in SpiDataVals}
    \cup {<<"data", <<"a">>, -1, 2>>, <<"data", <<"z">>, 0, 4660>>}
    \cup {<<r, <<>>, 0, 2>> : r \in {"config", "polltime", "polldata"}}

\* pcset commands on dgspi
SpiSetArgs ==
    {<<"config", v, 0>> : v \in SpiConfigVals}
    \cup {<<"polltime", v, 0>> : v \in SpiPollVals}
    \cup {<<"config", <<"5", "0", "0", "0", " ", "1", " ", "f", "h">>, -1>>,
          <<"data", <<"a">>, 0>>}

\* a string of n characters c
Rep(c, n) == [i \in 1 .. n |-> c]

\* what the unset locals of userhdlr may hold
VgaStack ==
    {[int |-> 2, ch1 |-> "u", ch2 |-> "i"],
     [int |-> 4660, ch1 |-> "?", ch2 |-> "?"]}

VgaStack0 == [int |-> 2, ch1 |-> "u", ch2 |-> "i"]

\* values given to pcset char, cursor, attr and rowoff
VgaCharVals == {Rep("x", NUMCOL), <<>>}

VgaCursorOk == <<"5", " ", "7", " ", "b", " ", "v">>
VgaCursorFar == <<"9", "9", " ", "9", "9", " ", "b", " ", "v">>
VgaCursorShort == <<"5", " ", "7">>
VgaAttrOk == <<"3", "f", " ", "0", " ", "u", " ", "b">>
VgaAttrShort == <<"3", "f">>

\* inbound packets on the vgaterm core
VgaPkts ==
    {Pkt(OP_WRITE, FALSE, VGA_REG_CURCOL, 4, 2),
     [Pkt(OP_WRITE, FALSE, VGA_REG_CHAR, 2, 2) EXCEPT !.cmd.inc = FALSE],
     Pkt(OP_READ, FALSE, VGA_REG_CHAR, 8, 2),
     Pkt(OP_READ, FALSE, VGA_REG_CURCOL, 1, 2),
     Pkt(OP_READ, FALSE, VGA_REG_CURCOL, 4, 31),
     Pkt(OP_READ, FALSE, VGA_REG_FGRGB, 3, 2),
     Pkt(OP_READ, TRUE, VGA_REG_CHAR, 8, 2)}

\* pcget commands on vgaterm: resource and the transport's answer
VgaGetArgs ==
    {<<"char", t>> : t \in TxRets}
    \cup {<<"cursor", 0>>, <<"attr", 0>>, <<"rowoff", 0>>}

\* pcset commands on vgaterm: resource, value, transport's answer, unset
\* locals
VgaSetArgs ==
    {<<"char", v, 0, VgaStack0>> : v \in VgaCharVals}
    \cup {<<"char", <<"h", "i">>, -1, VgaStack0>>,
          <<"cursor", VgaCursorOk, 0, VgaStack0>>,
          <<"cursor", VgaCursorFar, 0, VgaStack0>>,
          <<"attr", VgaAttrOk, 0, VgaStack0>>,
          <<"attr", VgaAttrShort, 0, VgaStack0>>,
          <<"rowoff", <<"9", "9">>, 0, VgaStack0>>}
    \cup {<<"cursor", VgaCursorShort, 0, g>> : g \in VgaStack}

\* what the unset ptimer of a fresh ps2 context may hold: null or not
Ps2Garbage == {0, 4660}

\* values given to pcset data: the reset command, a word, nothing
Ps2Vals == {<<"f", "f">>, <<"z">>}

\* the payload of an inbound packet that starts with the given bytes
PktData(regs) ==
    [i \in 0 .. 63 |-> IF i < Len(regs) THEN regs[i + 1] ELSE 0]

\* inbound packets on the ps2 core: the response to a write, a scan code
\* sent unasked, one with a wrong stop bit, a write flagged autosend and
\* a packet of another length
Ps2Pkts ==
    {[cmd |-> WriteCmd, reg |-> PS2_REG_DATA, count |-> 11,
      data |-> PktData(Ps2Frame(255))],
     [cmd |-> [op |-> OP_READ, inc |-> TRUE, auto |-> TRUE],
      reg |-> PS2_REG_DATA, count |-> 11, data |-> PktData(Ps2Frame(28))],
     [cmd |-> [op |-> OP_READ, inc |-> TRUE, auto |-> TRUE],
      reg |-> PS2_REG_DATA, count |-> 11,
      data |-> PktData(<<0, 0, 0, 1, 1, 1, 0, 0, 0, 0, 0>>)],
     [cmd |-> [op |-> OP_WRITE, inc |-> TRUE, auto |-> TRUE],
      reg |-> PS2_REG_DATA, count |-> 11, data |-> PktData(Ps2Frame(255))],
     Pkt(OP_READ, TRUE, PS2_REG_DATA, 5, 2)}

\* values given to pcset viout: two percentages, one out of range, one
\* number only
CvccVals ==
    {<<"5", "0", " ", "2", "5">>, <<"1", "0", "1", " ", "5">>, <<"5">>}

\* inbound packets on the cvcc core: the response to a write, a load
\* measurement sent unasked (half, quarter and eighth of a period of 1024),
\* and a packet of another length
CvccPkts ==
    {[cmd |-> WriteCmd, reg |-> CVCC_REG_VIOUT, count |-> 5,
      data |-> PktData(<<1, 255, 0, 255, 1>>)],
     [cmd |-> [op |-> OP_READ, inc |-> TRUE, auto |-> TRUE],
      reg |-> CVCC_REG_VIIN, count |-> 8,
      data |-> PktData(<<2, 0, 1, 0, 0, 128, 4, 0>>)],
     Pkt(OP_READ, TRUE, CVCC_REG_VIIN, 4, 2)}


\* what the unset text of a fresh runber context may hold
RunGarbageTexts == {<<>>, <<"8">>}

\* values given to pcset segments: four values, three values, a value
\* above 0xff
RunSegVals ==
    {<<"1", " ", "2", " ", "3", " ", "4">>,
     <<"1", " ", "2", " ", "3">>,
     <<"1", " ", "2", " ", "3", " ", "1", "0", "0">>}

\* pcset commands: resource, value and the transport's answer
RunSetArgs ==
    {<<"segments", v, 0>> : v \in RunSegVals}
    \cup {<<"segments", <<"1", " ", "2", " ", "3", " ", "4">>, -1>>,
          <<"display", <<"1", ".", "2">>, 0>>,
          <<"rgb", <<"1", "2", "3">>, 0>>, <<"rgb", <<"z">>, 0>>,
          <<"switches", <<"3">>, 0>>}

\* pcget commands: resource and the transport's answer if a packet is sent
RunGetArgs ==
    {<<"switches", t>> : t \in TxRets}
    \cup {<<"rgb", 0>>, <<"display", 0>>, <<"segments", 0>>, <<"drivlist", 0>>}

\* inbound packets on the runber core
RunPkts ==
    {Pkt(OP_WRITE, FALSE, RUNBR_REG_RED, 6, 2),
     Pkt(OP_READ, FALSE, RUNBR_REG_SWITCH, 2, 31),
     Pkt(OP_READ, TRUE, RUNBR_REG_SWITCH, 2, 2),
     Pkt(OP_READ, FALSE, RUNBR_REG_DRIVLIST, 2 * NUM_CORE, 31)}

---------------------------------------------------------------------------
(* Steps *)

\* the request the watchdog watches after a handler run that left machine
\* state m: the request of the packet sent when the timer was armed, and
\* none once no timer is armed
Watched(m) ==
    IF m.tq = {} THEN NoShape
    ELSE IF m.out.add # <<>> /\ m.out.tx # <<>>
         THEN Shape(m.out.tx[Len(m.out.tx)].pkt)
    ELSE wdfor

\* the handler ran and left machine state m; e is the event
Step(m, e) ==
    /\ ctx' = m.ctx
    /\ rsc' = m.rsc
    /\ timerq' = m.tq
    /\ subs' = m.subs
    /\ out' = m.out
    /\ evt' = e
    /\ wdfor' = Watched(m)
    /\ drv' = drv

\* pcget <resource> from session s
S7Get ==
    /\ drv = "cmods7"
    /\ \E s \in Sessions, a \in S7GetArgs :
        Step(Dispatch(S7Flags(a[1]), PCGET, a[1], Cur,
                      S7_usercmd(Cur, PCGET, a[1], <<>>, s, a[2])),
             [kind |-> "get", s |-> s, r |-> a[1], val |-> <<>>, txret |-> a[2]])

\* pcset <resource> <value> from session s
S7Set ==
    /\ drv = "cmods7"
    /\ \E s \in Sessions, a \in S7SetArgs :
        Step(Dispatch(S7Flags(a[1]), PCSET, a[1], Cur,
                      S7_usercmd(Cur, PCSET, a[1], a[2], s, a[3])),
             [kind |-> "set", s |-> s, r |-> a[1], val |-> a[2], txret |-> a[3]])

\* a packet arrives from the FPGA for this core
S7Packet ==
    /\ drv = "cmods7"
    /\ \E pkt \in S7Pkts :
        Step(S7_packet_hdlr(Cur, pkt), [kind |-> "pkt", pkt |-> pkt])

\* an armed watchdog expires
TimerExpire ==
    \E h \in timerq :
        Step(FireOneShot(Cur, h), [kind |-> "expire", h |-> h])

\* a session starts monitoring the broadcast resource
S7Monitor ==
    /\ drv = "cmods7"
    /\ \E s \in Sessions \ subs :
        Step(Monitor(Cur, "buttons", s), [kind |-> "monitor", s |-> s])

\* a monitoring session goes away
SessionLeaves ==
    \E s \in subs :
        Step(Unmonitor(Cur, s), [kind |-> "unmonitor", s |-> s])

InitS7 ==
    /\ drv = "cmods7"
    /\ \E g \in Garbage, txret \in TxRets :
        LET m == S7_Initialize(g, txret)
        IN  /\ ctx = m.ctx
            /\ rsc = m.rsc
            /\ timerq = m.tq
            /\ subs = m.subs
            /\ out = m.out
            /\ evt = [kind |-> "init", txret |-> txret]
            /\ wdfor = Shape(m.out.tx[1].pkt)

Init == InitS7

Next ==
    \/ S7Get
    \/ S7Set
    \/ S7Packet
    \/ S7Monitor
    \/ TimerExpire
    \/ SessionLeaves

Spec == Init /\ [][Next]_vars

---------------------------------------------------------------------------
(* The dgspi instance *)

\* pcget <resource> [bytes] from session s
SpiGet ==
    /\ drv = "dgspi"
    /\ \E s \in Sessions, a \in SpiGetArgs :
        Step(Dispatch(SpiFlags(a[1]), PCGET, a[1], Cur,
                      SpiCallback(Cur, PCGET, a[1], a[2], s, a[3], a[4])),
             [kind |-> "get", s |-> s, r |-> a[1], val |-> a[2], txret |-> a[3]])

\* pcset <resource> <value>; the callbacks for a set make no use of the
\* requesting session
SpiSet ==
    /\ drv = "dgspi"
    /\ \E a \in SpiSetArgs :
        Step(Dispatch(SpiFlags(a[1]), PCSET, a[1], Cur,
                      SpiCallback(Cur, PCSET, a[1], a[2], 0, a[3], 0)),
             [kind |-> "set", r |-> a[1], val |-> a[2], txret |-> a[3]])

\* a packet arrives from the FPGA for this core
SpiPacket ==
    /\ drv = "dgspi"
    /\ \E pkt \in SpiPkts :
        Step(Spi_packet_hdlr(Cur, pkt), [kind |-> "pkt", pkt |-> pkt])

\* a session starts monitoring polldata
SpiMonitor ==
    /\ drv = "dgspi"
    /\ \E s \in Sessions \ subs :
        Step(Monitor(Cur, "polldata", s), [kind |-> "monitor", s |-> s])

InitSpi ==
    /\ drv = "dgspi"
    /\ \E n \in SpiGarbageLen, g \in Garbage :
        LET m == Spi_Initialize(n, g)
        IN  /\ ctx = m.ctx
            /\ rsc = m.rsc
            /\ timerq = m.tq
            /\ subs = m.subs
            /\ out = m.out
            /\ evt = [kind |-> "init", txret |-> 0]
            /\ wdfor = NoShape

NextSpi ==
    \/ SpiGet
    \/ SpiSet
    \/ SpiPacket
    \/ SpiMonitor
    \/ TimerExpire
    \/ SessionLeaves

SpecSpi == InitSpi /\ [][NextSpi]_vars

---------------------------------------------------------------------------
(* The vgaterm instance.  The daemon has ended once Initialize has faulted:
   no request and no packet is handled any more. *)

\* pcget <resource> from session s
VgaGet ==
    /\ drv = "vgaterm"
    /\ ~out.fault
    /\ \E s \in Sessions, a \in VgaGetArgs :
        Step(Dispatch(VgaFlags(a[1]), PCGET, a[1], Cur,
                      Vga_userhdlr(Cur, PCGET, a[1], <<>>, s, a[2], VgaStack0)),
             [kind |-> "get", s |-> s, r |-> a[1], val |-> <<>>, txret |-> a[2]])

\* pcset <resource> <value>; userhdlr makes no use of the requesting
\* session for a set
VgaSet ==
    /\ drv = "vgaterm"
    /\ ~out.fault
    /\ \E a \in VgaSetArgs :
        Step(Dispatch(VgaFlags(a[1]), PCSET, a[1], Cur,
                      Vga_userhdlr(Cur, PCSET, a[1], a[2], 0, a[3], a[4])),
             [kind |-> "set", r |-> a[1], val |-> a[2], txret |-> a[3]])

\* a packet arrives from the FPGA for this core
VgaPacket ==
    /\ drv = "vgaterm"
    /\ ~out.fault
    /\ \E pkt \in VgaPkts :
        Step(Vga_packet_hdlr(Cur, pkt), [kind |-> "pkt", pkt |-> pkt])

InitVga ==
    /\ drv = "vgaterm"
    /\ \E g \in Garbage, t1 \in TxRets, t2 \in TxRets :
        LET m == Vga_Initialize(g, t1, t2)
        IN  /\ ctx = m.ctx
            /\ rsc = m.rsc
            /\ timerq = m.tq
            /\ subs = m.subs
            /\ out = m.out
            /\ evt = [kind |-> "init", txret |-> t1]
            /\ wdfor = IF m.tq = {} THEN NoShape ELSE Shape(m.out.tx[1].pkt)

NextVga ==
    \/ VgaGet
    \/ VgaSet
    \/ VgaPacket
    \/ TimerExpire

SpecVga == InitVga /\ [][NextVga]_vars

---------------------------------------------------------------------------
(* The ps2 instance *)

\* pcget data from session s
Ps2Get ==
    /\ drv = "ps2"
    /\ \E s \in Sessions :
        Step(Dispatch(Ps2Flags("data"), PCGET, "data", Cur,
                      ps2xmit(Cur, PCGET, <<>>, 0)),
             [kind |-> "get", s |-> s, r |-> "data", val |-> <<>>, txret |-> 0])

\* pcset data <value>; ps2xmit makes no use of the requesting session
Ps2Set ==
    /\ drv = "ps2"
    /\ \E v \in Ps2Vals, t \in TxRets :
        Step(Dispatch(Ps2Flags("data"), PCSET, "data", Cur,
                      ps2xmit(Cur, PCSET, v, t)),
             [kind |-> "set", r |-> "data", val |-> v, txret |-> t])

\* a packet arrives from the FPGA for this core
Ps2Packet ==
    /\ drv = "ps2"
    /\ \E pkt \in Ps2Pkts :
        Step(Ps2_packet_hdlr(Cur, pkt), [kind |-> "pkt", pkt |-> pkt])

\* a session starts monitoring the keyboard data
Ps2Monitor ==
    /\ drv = "ps2"
    /\ \E s \in Sessions \ subs :
        Step(Monitor(Cur, "data", s), [kind |-> "monitor", s |-> s])

InitPs2 ==
    /\ drv = "ps2"
    /\ \E g \in Ps2Garbage :
        LET m == Ps2_Initialize(g)
        IN  /\ ctx = m.ctx
            /\ rsc = m.rsc
            /\ timerq = m.tq
            /\ subs = m.subs
            /\ out = m.out
            /\ evt = [kind |-> "init", txret |-> 0]
            /\ wdfor = NoShape

NextPs2 ==
    \/ Ps2Get
    \/ Ps2Set
    \/ Ps2Packet
    \/ Ps2Monitor
    \/ TimerExpire
    \/ SessionLeaves

SpecPs2 == InitPs2 /\ [][NextPs2]_vars

---------------------------------------------------------------------------
(* The cvcc instance.  The daemon has ended once a handler has faulted. *)

\* the UI layer calls the resource's get/set callback; viin has none, and
\* the call of the null callback either is left out or ends the daemon
CallPgscb(r, m, called, skips) ==
    IF CvccHasPgscb(r) THEN called
    ELSE IF skips THEN m
    ELSE [m EXCEPT !.out.fault = TRUE]

\* pcget <resource> from session s
CvccGet ==
    /\ drv = "cvcc"
    /\ ~out.fault
    /\ \E s \in Sessions, r \in CvccRsc, skips \in BOOLEAN :
        Step(Dispatch(CvccFlags(r), PCGET, r, Cur,
                      CallPgscb(r, Cur, Cvcc_usercmd(Cur, PCGET, r, <<>>, 0),
                                skips)),
             [kind |-> "get", s |-> s, r |-> r, val |-> <<>>, txret |-> 0])

\* pcset viout <value>; usercmd makes no use of the requesting session
CvccSet ==
    /\ drv = "cvcc"
    /\ ~out.fault
    /\ \E v \in CvccVals, t \in TxRets :
        Step(Dispatch(CvccFlags("viout"), PCSET, "viout", Cur,
                      Cvcc_usercmd(Cur, PCSET, "viout", v, t)),
             [kind |-> "set", r |-> "viout", val |-> v, txret |-> t])

\* a packet arrives from the FPGA for this core
CvccPacket ==
    /\ drv = "cvcc"
    /\ ~out.fault
    /\ \E pkt \in CvccPkts :
        Step(Cvcc_packet_hdlr(Cur, pkt), [kind |-> "pkt", pkt |-> pkt])

\* a session starts monitoring the load measurements
CvccMonitor ==
    /\ drv = "cvcc"
    /\ ~out.fault
    /\ \E s \in Sessions \ subs :
        Step(Monitor(Cur, "viin", s), [kind |-> "monitor", s |-> s])

InitCvcc ==
    /\ drv = "cvcc"
    /\ \E g \in Garbage, txret \in TxRets :
        LET m == Cvcc_Initialize(g, txret)
        IN  /\ ctx = m.ctx
            /\ rsc = m.rsc
            /\ timerq = m.tq
            /\ subs = m.subs
            /\ out = m.out
            /\ evt = [kind |-> "init", txret |-> txret]
            /\ wdfor = IF m.tq = {} THEN NoShape ELSE Shape(m.out.tx[1].pkt)

NextCvcc ==
    \/ CvccGet
    \/ CvccSet
    \/ CvccPacket
    \/ CvccMonitor
    \/ TimerExpire
    \/ SessionLeaves

SpecCvcc == InitCvcc /\ [][NextCvcc]_vars

---------------------------------------------------------------------------
(* The isl29125 instance *)

\* pcget <resource>
IslGet ==
    /\ drv = "isl29125"
    /\ \E s \in Sessions, r \in IslRsc :
        Step(Dispatch(IslFlags(r), PCGET, r, Cur,
                      Isl_usercmd(Cur, PCGET, r, <<>>, IslNoOpen)),
             [kind |-> "get", s |-> s, r |-> r, val |-> <<>>])

\* pcset period <value>
IslSetPeriod ==
    /\ drv = "isl29125"
    /\ \E v \in IslPeriodVals :
        Step(Dispatch(IslFlags("period"), PCSET, "period", Cur,
                      Isl_usercmd(Cur, PCSET, "period", v, IslNoOpen)),
             [kind |-> "set", r |-> "period", val |-> v])

\* pcset bus <value>
IslSetBus ==
    /\ drv = "isl29125"
    /\ \E v \in IslBusVals, io \in IslOpens :
        Step(Dispatch(IslFlags("bus"), PCSET, "bus", Cur,
                      Isl_usercmd(Cur, PCSET, "bus", v, io)),
             [kind |-> "set", r |-> "bus", val |-> v])

\* the periodic poll timer fires and stays queued; on a descriptor that is
\* not open both the write and the read fail
IslPoll ==
    /\ drv = "isl29125"
    /\ \E h \in timerq :
         \E wret \in {1, -1},
            rd \in (IF ctx.islfd < 0 THEN {IslReadClosed} ELSE IslReads) :
            /\ (ctx.islfd < 0 => wret = -1)
            /\ Step(colorscb(Cur, wret, rd),
                    [kind |-> "poll", h |-> h, wret |-> wret, rd |-> rd])

\* a session starts monitoring the colors
IslMonitor ==
    /\ drv = "isl29125"
    /\ \E s \in Sessions \ subs :
        Step(Monitor(Cur, "colors", s), [kind |-> "monitor", s |-> s])

InitIsl ==
    /\ drv = "isl29125"
    /\ ctx = Isl_Initialize.ctx
    /\ rsc = Isl_Initialize.rsc
    /\ timerq = Isl_Initialize.tq
    /\ subs = Isl_Initialize.subs
    /\ out = Isl_Initialize.out
    /\ evt = [kind |-> "init"]
    /\ wdfor = NoShape

NextIsl ==
    \/ IslGet
    \/ IslSetPeriod
    \/ IslSetBus
    \/ IslPoll
    \/ IslMonitor
    \/ SessionLeaves

SpecIsl == InitIsl /\ [][NextIsl]_vars

---------------------------------------------------------------------------
(* The runber instance *)

\* pcget <resource> from session s
RunGet ==
    /\ drv = "runber"
    /\ \E s \in Sessions, a \in RunGetArgs :
        Step(Dispatch(RunFlags(a[1]), PCGET, a[1], Cur,
                      Run_usercmd(Cur, PCGET, a[1], <<>>, s, a[2])),
             [kind |-> "get", s |-> s, r |-> a[1], val |-> <<>>, txret |-> a[2]])

\* pcset <resource> <value> from session s
RunSet ==
    /\ drv = "runber"
    /\ \E s \in Sessions, a \in RunSetArgs :
        Step(Dispatch(RunFlags(a[1]), PCSET, a[1], Cur,
                      Run_usercmd(Cur, PCSET, a[1], a[2], s, a[3])),
             [kind |-> "set", s |-> s, r |-> a[1], val |-> a[2], txret |-> a[3]])

\* a packet arrives from the FPGA for this core
RunPacket ==
    /\ drv = "runber"
    /\ \E pkt \in RunPkts :
        Step(Run_packet_hdlr(Cur, pkt), [kind |-> "pkt", pkt |-> pkt])

\* a session starts monitoring the switches
RunMonitor ==
    /\ drv = "runber"
    /\ \E s \in Sessions \ subs :
        Step(Monitor(Cur, "switches", s), [kind |-> "monitor", s |-> s])

InitRun ==
    /\ drv = "runber"
    /\ \E g \in Garbage, gtext \in RunGarbageTexts :
        LET m == Run_Initialize(g, gtext)
        IN  /\ ctx = m.ctx
            /\ rsc = m.rsc
            /\ timerq = m.tq
            /\ subs = m.subs
            /\ out = m.out
            /\ evt = [kind |-> "init"]
            /\ wdfor = NoShape

NextRun ==
    \/ RunGet
    \/ RunSet
    \/ RunPacket
    \/ RunMonitor
    \/ TimerExpire
    \/ SessionLeaves

SpecRun == InitRun /\ [][NextRun]_vars

---------------------------------------------------------------------------
(* Loading a driver: Initialize with either outcome of its malloc.  A slot
   whose Initialize failed has no packet handler on the core and no
   resource, so no packet and no command reaches the driver. *)

\* Initialize has returned ld for the inputs mem and txret
Loaded(ld, mem, txret) ==
    /\ drv = ld.pcb
    /\ ctx = ld.m.ctx
    /\ rsc = ld.m.rsc
    /\ timerq = ld.m.tq
    /\ subs = ld.m.subs
    /\ out = ld.m.out
    /\ evt = [kind |-> "init", mem |-> mem, ret |-> ld.ret, txret |-> txret]
    /\ wdfor = IF ld.m.tq = {} THEN NoShape ELSE Shape(ld.m.out.tx[1].pkt)

InitLoadS7 ==
    \E mem \in MallocRets, g \in Garbage, txret \in TxRets :
        Loaded(S7_Load(mem, g, txret), mem, txret)

InitLoadCvcc ==
    \E mem \in MallocRets, g \in Garbage, txret \in TxRets :
        Loaded(Cvcc_Load(mem, g, txret), mem, txret)

InitLoad == InitLoadS7 \/ InitLoadCvcc

NextLoad ==
    \/ S7Get
    \/ S7Set
    \/ S7Packet
    \/ S7Monitor
    \/ CvccGet
    \/ CvccSet
    \/ CvccPacket
    \/ CvccMonitor
    \/ TimerExpire
    \/ SessionLeaves

SpecLoad == InitLoad /\ [][NextLoad]_vars

---------------------------------------------------------------------------
(* Either instance: the daemon loads the driver the slot names *)

InitAll == InitS7 \/ InitSpi

NextAll == Next \/ NextSpi

SpecAll == InitAll /\ [][NextAll]_vars

---------------------------------------------------------------------------
(* Vocabulary of the claims *)

\* the last step handled an inbound packet
IsPkt(e) == e.kind = "pkt"

\* a write acknowledgment: a packet whose operation is Write
IsWriteAck(pkt) == pkt.cmd.op = OP_WRITE

\* a read reply: operation Read and not flagged as unsolicited
IsReadReply(pkt) == pkt.cmd.op = OP_READ /\ ~pkt.cmd.auto

\* an unsolicited update: flagged autosend
IsAutosend(pkt) == pkt.cmd.auto

\* the read requests the cmods7 driver issues: buttons and drivlist
S7ReadShapes == {<<S7_REG_BUTTONS, 1>>, <<S7_REG_DRIVLIST, 32>>}

\* the deliveries to UI sessions made by the last step
Deliveries(o) == {i \in DOMAIN o.ui : o.ui[i].fn \in {"send_ui", "bcst_ui"}}

\* the supervisor is Awaiting while a watchdog is in the timer queue
Awaiting == timerq # {}

---------------------------------------------------------------------------
(* C1: at most one session holds a resource's session_lock at any time; a  *)
(* Get of a resource whose lock is held is answered Busy, sends nothing    *)
(* and changes no lock, timer or context; a held lock is never handed to   *)
(* another session, and a free lock is taken only by the session whose Get *)
(* was dispatched on that resource.                                        *)
C1_LockSingleOwner ==
    [][\A r \in DOMAIN rsc :
        /\ rsc'[r].uilock \in Sessions \cup {NOLOCK}
        /\ rsc[r].uilock # NOLOCK =>
              /\ rsc'[r].uilock \in {rsc[r].uilock, NOLOCK}
              /\ (evt'.kind = "get" /\ evt'.r = r) =>
                    /\ out'.reply = E_BUSY(r)
                    /\ out'.tx = <<>> /\ out'.add = <<>> /\ out'.del = <<>>
                    /\ rsc' = rsc /\ ctx' = ctx /\ timerq' = timerq
        /\ (rsc[r].uilock = NOLOCK /\ rsc'[r].uilock # NOLOCK) =>
              evt'.kind = "get" /\ evt'.r = r /\ rsc'[r].uilock = evt'.s
      ]_vars

\* a session asked for the buttons while another session held the lock
C1_Witness ==
    /\ evt.kind = "get" /\ evt.r = "buttons"
    /\ out.reply = E_BUSY("buttons")
    /\ rsc["buttons"].uilock \in Sessions \ {evt.s}

(* C2: a read reply is delivered to the session holding the lock if and    *)
(* only if its (register, count) matches the last Read request issued for  *)
(* the resource; a read reply whose register or count matches no Read      *)
(* request of the driver is a protocol mismatch and is delivered to no     *)
(* session, neither sent nor broadcast.                                    *)
C2_MismatchNotDelivered ==
    (IsPkt(evt) /\ IsReadReply(evt.pkt)
        /\ <<evt.pkt.reg, evt.pkt.count>> \notin S7ReadShapes)
    => Deliveries(out) = {}

(* C3: the read reply matching a locked Get delivers exactly one reply,    *)
(* the formatted payload followed by a prompt, to exactly the session that *)
(* holds the lock, and the lock is none afterwards; for the cmods7 buttons *)
(* data byte 0x02 is delivered as "2\n" and 0x1f as "1f\n".                *)
C3_ReplyToLockHolder ==
    [][(evt'.kind = "pkt" /\ IsReadReply(evt'.pkt)
          /\ evt'.pkt.reg = S7_REG_BUTTONS /\ evt'.pkt.count = 1
          /\ rsc["buttons"].uilock # NOLOCK)
       => /\ Len(out'.ui) = 2
          /\ out'.ui[1].fn = "send_ui" /\ out'.ui[1].cn = rsc["buttons"].uilock
          /\ out'.ui[1].text = FmtHex(evt'.pkt.data[0]) \o "\n"
          /\ (evt'.pkt.data[0] = 2 => out'.ui[1].text = "2\n")
          /\ (evt'.pkt.data[0] = 31 => out'.ui[1].text = "1f\n")
          /\ out'.ui[2].fn = "prompt" /\ out'.ui[2].cn = rsc["buttons"].uilock
          /\ rsc'["buttons"].uilock = NOLOCK
      ]_vars

\* the reply (reg 0, count 1, data 0x02) was delivered to a session
C3_Witness ==
    /\ IsPkt(evt) /\ IsReadReply(evt.pkt)
    /\ evt.pkt.reg = S7_REG_BUTTONS /\ evt.pkt.count = 1 /\ evt.pkt.data[0] = 2
    /\ out.ui # <<>> /\ out.ui[1].cn \in Sessions /\ out.ui[1].text = "2\n"
    /\ rsc["buttons"].uilock = NOLOCK

(* C4: when the watchdog expires the supervisor leaves Awaiting once: the  *)
(* expired timer is gone from the timer queue, exactly one no-ack          *)
(* diagnostic is logged, and the expiry arms no timer and sends nothing.   *)
C4_TimeoutTerminal ==
    evt.kind = "expire" =>
        /\ out.log = <<E_NOACK>>
        /\ out.add = <<>>
        /\ out.tx = <<>>
        /\ evt.h \notin timerq
        /\ ~Awaiting

\* a watchdog has expired
C4_Witness == evt.kind = "expire" /\ out.log = <<E_NOACK>> /\ timerq = {}

(* C5: when the watchdog fires the instance's timer handle is cleared, so  *)
(* the next request arms a fresh watchdog.                                 *)
C5_HandleClearedOnExpiry == evt.kind = "expire" => ctx.ptimer = 0

(* C6: when the watchdog fires while a session holds a resource's lock the *)
(* lock is released.                                                       *)
C6_LockReleasedOnExpiry ==
    evt.kind = "expire" => \A r \in DOMAIN rsc : rsc[r].uilock = NOLOCK

(* C7: the watchdog is cancelled when, and only when, the inbound packet   *)
(* matches the request it watches: a write acknowledgment when a write is  *)
(* outstanding, a read reply with the expected register and count when a   *)
(* read is outstanding.                                                    *)
C7_CancelOnlyOnMatch ==
    [][(evt'.kind = "pkt" /\ Awaiting /\ timerq' = {})
       => \/ (wdfor.op = OP_WRITE /\ IsWriteAck(evt'.pkt))
          \/ (wdfor.op = OP_READ /\ IsReadReply(evt'.pkt)
                /\ evt'.pkt.reg = wdfor.reg /\ evt'.pkt.count = wdfor.count)
      ]_vars

(* C8: at most one watchdog timer is armed per instance; a request sent    *)
(* while the supervisor is Awaiting adds no timer, deletes none and leaves *)
(* the armed timer and the handle as they are.                             *)
C8_OneWatchdog ==
    [][/\ Cardinality(timerq') <= 1
       /\ (Awaiting /\ evt'.kind \in {"get", "set"})
            => /\ out'.add = <<>> /\ out'.del = <<>>
               /\ timerq' = timerq /\ ctx'.ptimer = ctx.ptimer
      ]_vars

\* a packet was sent while the watchdog was already armed
C8_Witness ==
    /\ evt.kind = "set" /\ out.tx # <<>> /\ out.tx[1].ret = 0
    /\ out.add = <<>> /\ Awaiting

IsButtonUpdate(pkt) ==
    /\ IsAutosend(pkt) /\ pkt.cmd.op = OP_READ
    /\ pkt.reg = S7_REG_BUTTONS /\ pkt.count = 1

(* C10 as stated: while the broadcast key of a resource is non-zero every  *)
(* autosend update for it, including one whose payload is identical to the *)
(* previous one, is formatted and broadcast to the subscribed sessions.    *)
C10_EveryUpdateDelivered ==
    [][(evt'.kind = "pkt" /\ IsButtonUpdate(evt'.pkt)
          /\ rsc["buttons"].bkey # 0)
       => \E i \in DOMAIN out'.ui :
             out'.ui[i].fn = "bcst_ui" /\ out'.ui[i].to = subs
      ]_vars

(* C10 amended: while the broadcast key of the cmods7 buttons is non-zero  *)
(* a button update is formatted and broadcast, once, to the subscribed     *)
(* sessions if and only if its value differs from the last button value    *)
(* the driver recorded; an update repeating that value is delivered to no  *)
(* one. The key changes only when a session subscribes (set) or when a     *)
(* broadcast finds no subscriber left (cleared): the driver never writes   *)
(* it.                                                                     *)
C10_UpdateDeliveredUnlessRepeat ==
    [][/\ (evt'.kind = "pkt" /\ IsButtonUpdate(evt'.pkt)
             /\ rsc["buttons"].bkey # 0)
          => /\ ctx'.lastbutton = evt'.pkt.data[0]
             /\ IF evt'.pkt.data[0] # ctx.lastbutton
                THEN /\ Len(out'.ui) = 1
                     /\ out'.ui[1].fn = "bcst_ui" /\ out'.ui[1].to = subs
                     /\ out'.ui[1].text = FmtHex(evt'.pkt.data[0]) \o "\n"
                     /\ rsc'["buttons"].bkey =
                           IF subs = {} THEN 0 ELSE rsc["buttons"].bkey
                ELSE /\ out'.ui = <<>>
                     /\ rsc'["buttons"].bkey = rsc["buttons"].bkey
       /\ \A r \in DOMAIN rsc :
            rsc'[r].bkey # rsc[r].bkey
            => \/ evt'.kind = "monitor" /\ rsc'[r].bkey # 0
               \/ /\ rsc'[r].bkey = 0
                  /\ \E i \in DOMAIN out'.ui :
                        out'.ui[i].fn = "bcst_ui" /\ out'.ui[i].to = {}
      ]_vars

\* a button update repeating the last value arrived while a session was
\* subscribed, and was not delivered
C10_Witness ==
    /\ IsPkt(evt) /\ IsButtonUpdate(evt.pkt)
    /\ rsc["buttons"].bkey # 0 /\ subs # {}
    /\ out.ui = <<>>

(* C11: the remembered last payload of the cmods7 buttons (lastbutton)     *)
(* changes only when an autosend update is handled; no other packet and no *)
(* other event writes it.                                                  *)
C11_LastPayloadOnlyByAutosend ==
    [][ctx'.lastbutton # ctx.lastbutton
       => evt'.kind = "pkt" /\ IsAutosend(evt'.pkt)
      ]_vars

(* C12: a packet carrying the unsolicited (auto-data) flag is classified   *)
(* as an autosend update whatever its operation: it is never handled as a  *)
(* write acknowledgment (cancelling the watchdog) nor as a read reply      *)
(* (answering and releasing the session lock).                             *)
C12_AutosendNeverAckOrReply ==
    [][(evt'.kind = "pkt" /\ IsAutosend(evt'.pkt))
       => /\ out'.del = <<>>
          /\ timerq' = timerq /\ ctx'.ptimer = ctx.ptimer
          /\ \A i \in DOMAIN out'.ui : out'.ui[i].fn = "bcst_ui"
          /\ \A r \in DOMAIN rsc : rsc'[r].uilock = rsc[r].uilock
      ]_vars

\* the packet the last step handed to the transport last
LastTx == out.tx[Len(out.tx)].pkt

C14_LiveGet ==
    (/\ evt.kind = "get" /\ evt.r = "buttons" /\ evt.txret = 0
     /\ out.reply # E_BUSY("buttons"))
    => /\ Len(out.tx) = 1
       /\ out.tx[1].pkt.cmd.op = OP_READ
       /\ out.tx[1].pkt.reg = S7_REG_BUTTONS /\ out.tx[1].pkt.count = 1
       /\ Awaiting
       /\ rsc["buttons"].uilock = evt.s
       /\ out.plen = 0

\* the reply to pcget drivlist when every ID is 0x1234
Drivlist1234 ==
    "1234 1234 1234 1234 1234 1234 1234 1234 "
    \o "1234 1234 1234 1234 1234 1234 1234 1234\n"

(* C15: a pcget of a cached value of cmods7 (rgb, drivlist) returns the    *)
(* formatted value at once and has no other effect: no packet is sent, no  *)
(* timer is armed or cancelled, nothing is delivered, and context, locks,  *)
(* keys and the timer queue are unchanged. rgb is printed as hex and a     *)
(* newline, drivlist as 16 four-digit hex IDs separated by spaces.         *)
C15_CachedGet ==
    [][(evt'.kind = "get" /\ evt'.r \in {"rgb", "drivlist"}
          /\ rsc[evt'.r].uilock = NOLOCK)
       => /\ out'.tx = <<>> /\ out'.add = <<>> /\ out'.del = <<>>
          /\ out'.ui = <<>> /\ out'.log = <<>>
          /\ ctx' = ctx /\ rsc' = rsc /\ timerq' = timerq /\ subs' = subs
          /\ evt'.r = "rgb" =>
                /\ out'.reply = HexDigits[ctx.rgb + 1] \o "\n"
                /\ out'.plen = 2
          /\ (evt'.r = "drivlist" /\ \A i \in DOMAIN ctx.drivlist :
                                         ctx.drivlist[i] = 4660) =>
                /\ out'.reply = Drivlist1234
                /\ out'.plen = 5 * NUM_CORE
      ]_vars

\* pcget rgb returned "3\n" while a watchdog was not armed
C15_Witness ==
    /\ evt.kind = "get" /\ evt.r = "rgb"
    /\ ctx.rgb = 3 /\ out.reply = "3\n"
    /\ ctx.ptimer = 0

(* C16: a request whose value fails to parse or is out of range (here a    *)
(* dgspi config or polltime Set, or a dgspi data request with no bytes) is *)
(* rejected with the invalid-value error, sends no packet, arms no timer   *)
(* and leaves every field of the instance context unchanged.               *)
C16_InvalidRejectedUnchanged ==
    [][(evt'.kind \in {"get", "set"} /\ out'.reply = E_BDVAL(evt'.r))
       => /\ out'.tx = <<>>
          /\ out'.add = <<>>
          /\ timerq' = timerq
          /\ ctx' = ctx
      ]_vars

\* the resources registered without IS_READABLE, and without IS_WRITABLE
UnreadableRsc == {"polldata"}
UnwritableRsc == {"buttons", "drivlist", "data", "polldata"}

(* C17: a Get on a resource that lacks the Readable flag, or a Set on one  *)
(* that lacks the Writable flag, fails with the not-readable or            *)
(* not-writable error string in the output buffer, and sends no packet,    *)
(* touches no timer, delivers nothing and changes no lock, key or cached   *)
(* value.                                                                  *)
C17_NotPermitted ==
    [][/\ (evt'.kind = "get" /\ evt'.r \in UnreadableRsc)
            => out'.reply = E_NREAD(evt'.r)
       /\ (evt'.kind = "set" /\ evt'.r \in UnwritableRsc)
            => out'.reply = E_NWRITE(evt'.r)
       /\ (\/ evt'.kind = "get" /\ evt'.r \in UnreadableRsc
           \/ evt'.kind = "set" /\ evt'.r \in UnwritableRsc)
            => /\ out'.plen = Len(out'.reply)
               /\ out'.tx = <<>> /\ out'.add = <<>> /\ out'.del = <<>>
               /\ out'.ui = <<>>
               /\ ctx' = ctx /\ rsc' = rsc /\ timerq' = timerq
      ]_vars

\* a pcset of the cmods7 buttons was refused
C17_Witness ==
    /\ evt.kind = "set" /\ evt.r = "buttons"
    /\ out.reply = "ERROR 007 : Resource 'buttons' is not writable\n"
    /\ out.tx = <<>>

\* the value a valid pcset rgb asks for
RgbOf(val) == IF val = <<"3">> THEN 3 ELSE 7

(* C18: when the transport refuses the packet of a valid pcset rgb the     *)
(* session is given the transport-write error, the stored rgb value is the *)
(* new one (no roll back), and a pcget rgb that follows returns the value  *)
(* of the failed Set.                                                      *)
C18_RefusedSetKeepsValue ==
    [][/\ (/\ evt'.kind = "set" /\ evt'.r = "rgb" /\ evt'.txret # 0
           /\ evt'.val \in {<<"3">>, <<"7">>})
          => /\ out'.reply = E_WRFPGA
             /\ Len(out'.tx) = 1 /\ out'.tx[1].ret # 0
             /\ ctx'.rgb = RgbOf(evt'.val)
       /\ (/\ evt.kind = "set" /\ evt.r = "rgb" /\ evt.txret # 0
           /\ evt.val \in {<<"3">>, <<"7">>}
           /\ evt'.kind = "get" /\ evt'.r = "rgb")
          => out'.reply = (IF evt.val = <<"3">> THEN "3\n" ELSE "7\n")
      ]_vars

\* pcset rgb 7 was refused by the transport and rgb is 7
C18_Witness ==
    /\ evt.kind = "set" /\ evt.r = "rgb" /\ evt.val = <<"7">>
    /\ evt.txret # 0 /\ out.reply = E_WRFPGA
    /\ ctx.rgb = 7

(* C19: an inbound packet that matches none of the shapes the cmods7       *)
(* driver expects (not a write response, not flagged autosend, and not a   *)
(* read response for buttons or drivlist) is logged and discarded: nothing *)
(* is delivered or broadcast and no lock, key, timer handle or cached      *)
(* value changes.                                                          *)
C19_UnexpectedDiscarded ==
    [][(/\ evt'.kind = "pkt"
        /\ ~IsWriteAck(evt'.pkt) /\ ~IsAutosend(evt'.pkt)
        /\ <<evt'.pkt.reg, evt'.pkt.count>> \notin S7ReadShapes)
       => /\ out'.log # <<>>
          /\ out'.ui = <<>>
          /\ rsc' = rsc /\ ctx' = ctx /\ timerq' = timerq
      ]_vars

\* the data bytes a packet has room for, as the packet layout gives it
PktDataMax == 64

(* C20: every packet a driver hands to the transport has a count between   *)
(* 0 and 64 and a payload within data[0..63]; no accepted user input, such *)
(* as an 80 character vgaterm char string, makes a driver build a packet   *)
(* with a greater count.                                                   *)
C20_CountWithinPacket ==
    \A i \in DOMAIN out.tx :
        /\ out.tx[i].pkt.count \in 0 .. PktDataMax
        /\ Len(out.tx[i].pkt.data) <= PktDataMax

\* the last event is a valid pcset rgb
ValidSetRgb(e) ==
    e.kind = "set" /\ e.r = "rgb" /\ e.val \in {<<"3">>, <<"7">>}

\* the step of a pcset rgb v sent exactly one Write packet for the LED
\* register, with v as its one data byte
SentRgbWrite(o, v) ==
    /\ Len(o.tx) = 1
    /\ o.tx[1].pkt.cmd.op = OP_WRITE
    /\ o.tx[1].pkt.reg = S7_REG_LEDS
    /\ o.tx[1].pkt.count = 1
    /\ o.tx[1].pkt.data = <<v>>
    /\ o.tx[1].len = 5

(* C21, as stated: for every value v in 0..7, pcset rgb v on cmods7 sends  *)
(* exactly one Write packet with reg 0x01, count 1 and data [v] and        *)
(* produces no user-visible reply, and the matching WriteAck returns the   *)
(* supervisor to Idle by clearing the pending timer.                       *)
C21_SetRgbSilent ==
    [][/\ ValidSetRgb(evt') =>
            /\ SentRgbWrite(out', RgbOf(evt'.val))
            /\ out'.reply = NoReply /\ out'.ui = <<>>
       /\ (evt'.kind = "pkt" /\ IsWriteAck(evt'.pkt)) =>
            /\ ~Awaiting' /\ ctx'.ptimer = 0
      ]_vars

(* C21, amended: for every value v in 0..7, pcset rgb v on cmods7 sends    *)
(* exactly one Write packet with reg 0x01, count 1 and data [v]; it        *)
(* produces no user-visible reply when the transport accepts the packet    *)
(* and the transport-write error when it does not; a WriteAck returns the  *)
(* supervisor to Idle by clearing the pending timer.                       *)
C21_SetRgbSilentIfSent ==
    [][/\ ValidSetRgb(evt') =>
            /\ SentRgbWrite(out', RgbOf(evt'.val))
            /\ out'.ui = <<>>
            /\ out'.reply = (IF evt'.txret = 0 THEN NoReply ELSE E_WRFPGA)
       /\ (evt'.kind = "pkt" /\ IsWriteAck(evt'.pkt)) =>
            /\ ~Awaiting' /\ ctx'.ptimer = 0
            /\ Awaiting => /\ Len(out'.del) = 1 /\ out'.del[1].armed
      ]_vars

\* the WriteAck of a pcset rgb 7 has just stopped the watchdog that the Set
\* had started
C21_Witness ==
    /\ evt.kind = "pkt" /\ IsWriteAck(evt.pkt) /\ evt.pkt.reg = S7_REG_LEDS
    /\ ctx.rgb = 7 /\ ctx.ptimer = 0 /\ ~Awaiting
    /\ Len(out.del) = 1 /\ out.del[1].armed

\* the values given to pcset rgb that name no number in 0..7: 8, a word,
\* nothing, and the hex number -fffffff9
InvalidRgbVals == S7Vals \ {<<"3">>, <<"7">>}

(* C22: for every value outside 0..7, and every unparsable value, pcset    *)
(* rgb on cmods7 is rejected locally with the invalid-value error, no      *)
(* packet is sent, no timer is armed and the stored LED value stays at its *)
(* last valid value; the stored rgb value is within 0..7 in every          *)
(* reachable state.                                                        *)
C22_InvalidRgbRejected ==
    [][/\ (evt'.kind = "set" /\ evt'.r = "rgb" /\ evt'.val \in InvalidRgbVals)
          => /\ out'.reply = E_BDVAL("rgb")
             /\ out'.tx = <<>> /\ out'.add = <<>>
             /\ timerq' = timerq /\ ctx' = ctx
       /\ ctx'.rgb \in 0 .. 7
      ]_vars

\* the event is a pcset rgb that usercmd did not reject
AcceptedSetRgb(e, o) ==
    e.kind = "set" /\ e.r = "rgb" /\ o.reply # E_BDVAL("rgb")

FlagsOf(r) ==
    CASE drv = "cmods7" -> S7Flags(r)
      [] drv = "dgspi" -> SpiFlags(r)
      [] drv = "vgaterm" -> VgaFlags(r)
      [] drv = "ps2" -> Ps2Flags(r)
      [] drv = "cvcc" -> CvccFlags(r)

(* C24: no resource configured by any driver has both the Broadcastable    *)
(* and the Writable capability flag set.                                   *)
C24_BroadcastNotWritable ==
    \A r \in DOMAIN rsc : ~({CAN_BROADCAST, IS_WRITABLE} \subseteq FlagsOf(r))

\* the machine state the last handler has left
Post ==
    [ctx |-> ctx', rsc |-> rsc', tq |-> timerq', subs |-> subs',
     out |-> EmptyOut]

(* C25: for a readable and broadcastable resource, the line broadcast for  *)
(* an autosend update carrying payload p is the same text (same fields,    *)
(* same format) that a pcget of that resource produces for payload p; here *)
(* for viin of cvcc, whose pcget prints the values held once the update    *)
(* has been handled.                                                       *)
C25_BroadcastSameAsGet ==
    [][evt'.kind = "pkt" =>
          \A i \in DOMAIN out'.ui :
              out'.ui[i].fn = "bcst_ui"
              => out'.ui[i].text
                 = Cvcc_usercmd(Post, PCGET, "viin", <<>>, 0).out.reply
      ]_vars

(* C26: the expiry of the watchdog never transmits a packet, so a request  *)
(* that timed out is not sent again: packets are handed to the transport   *)
(* only by Initialize and by the dispatch of a pcget or pcset, one packet  *)
(* for each that built one, and the watchdog is armed only by those.       *)
C26_ExpiryNeverTransmits ==
    /\ evt.kind = "expire" => (out.tx = <<>> /\ out.add = <<>>)
    /\ out.tx # <<>> => (evt.kind \in {"init", "get", "set"} /\ Len(out.tx) = 1)

\* the watchdog has expired on a pcget buttons whose reply never came: the
\* session still holds the lock and nothing was sent
C26_Witness ==
    /\ evt.kind = "expire" /\ out.log = <<E_NOACK>>
    /\ rsc["buttons"].uilock # NOLOCK /\ out.tx = <<>>

\* Initialize has run with a malloc that returned null
AllocationFailed == evt.kind = "init" /\ evt.mem = 0

(* C27: if the allocation of the instance context fails, Initialize        *)
(* reports failure (returns -1) and the instance is not created: no packet *)
(* handler is registered on the core, no private context and no resource   *)
(* is configured, no packet is sent and no timer is armed.                 *)
C27_NoInstanceWithoutMemory ==
    AllocationFailed =>
        /\ evt.ret = -1
        /\ drv = "none"
        /\ DOMAIN ctx = {} /\ DOMAIN rsc = {}
        /\ out.tx = <<>> /\ out.add = <<>> /\ timerq = {}
        /\ out.ui = <<>> /\ subs = {}

\* the failed allocation of cvcc's context has been logged
C27_Witness ==
    /\ AllocationFailed
    /\ out.log = <<"memory allocation failure in cvcc initialization">>

(* C28: in every reachable state, if a resource of the instance is locked  *)
(* to a session (a Get awaits its reply) then the instance's watchdog is   *)
(* armed; no inbound packet leaves a lock held with no timer running.      *)
C28_LockImpliesWatchdog ==
    (\E r \in DOMAIN rsc : rsc[r].uilock # NOLOCK)
    => (timerq # {} /\ ctx.ptimer \in timerq)

(* C29: del_timer is only ever called with the handle of a timer that is   *)
(* currently armed: never with a null handle, never with the handle of a   *)
(* one-shot timer that has already fired, and never twice for one handle.  *)
C29_DelTimerOnlyArmed ==
    \A i \in DOMAIN out.del : out.del[i].armed

(* C30: only a packet flagged as an autosend update from the monitored     *)
(* register can cause a broadcast or change the remembered last payload: a *)
(* solicited read reply (the cmods7 drivlist reply, or a read reply for    *)
(* another register) is never broadcast to the subscribers of the buttons. *)
C30_OnlyAutosendBroadcasts ==
    [][(\/ \E i \in DOMAIN out'.ui : out'.ui[i].fn = "bcst_ui"
        \/ ctx'.lastbutton # ctx.lastbutton)
       => /\ evt'.kind = "pkt"
          /\ IsAutosend(evt'.pkt)
          /\ evt'.pkt.reg = S7_REG_BUTTONS
      ]_vars

(* C31: send_ui and prompt are never invoked with the session identity     *)
(* none (-1): a read reply that arrives while the resource's lock is none  *)
(* (an unsolicited or duplicated reply) results in no delivery.            *)
C31_NoDeliveryToNone ==
    \A i \in DOMAIN out.ui :
        out.ui[i].fn \in {"send_ui", "prompt"} => out.ui[i].cn # NOLOCK

(* C32: when the transport reports failure for a request (Get or Set), no  *)
(* watchdog is armed on behalf of that request and no session lock is set: *)
(* the timer queue, the timer handle and all locks are as they were before *)
(* the dispatch.                                                           *)
C32_RefusedRequestArmsNothing ==
    [][(/\ evt'.kind \in {"get", "set"}
        /\ out'.tx # <<>>
        /\ out'.tx[Len(out'.tx)].ret # 0)
       => /\ out'.add = <<>>
          /\ timerq' = timerq /\ ctx'.ptimer = ctx.ptimer
          /\ \A r \in DOMAIN rsc : rsc'[r].uilock = rsc[r].uilock
      ]_vars

(* C33: when the transport refuses the configuration packet that cvcc      *)
(* sends from Initialize (no user connection: null output buffer and null  *)
(* length), the failure is ignored: Initialize still returns, no           *)
(* user-visible error is produced and the absent buffer and length are not *)
(* written or read.                                                        *)
C33_InitIgnoresRefusal ==
    (evt.kind = "init" /\ out.tx # <<>> /\ out.tx[Len(out.tx)].ret # 0)
    => (~out.fault /\ out.reply = NoReply)

\* the write response to a ps2 command byte
IsPs2WriteResponse(pkt) ==
    ~pkt.cmd.auto /\ pkt.reg = PS2_REG_DATA /\ pkt.count = 11

(* C34: in the ps2 driver, once the write response for a command byte has  *)
(* been processed the supervisor is Idle (timer cancelled, handle          *)
(* cleared), so every later command byte that is sent successfully while   *)
(* no timer runs arms a new watchdog.                                      *)
C34_Ps2IdleAfterResponse ==
    [][/\ (evt'.kind = "pkt" /\ IsPs2WriteResponse(evt'.pkt))
          => (timerq' = {} /\ ctx'.ptimer = 0)
       /\ (/\ evt'.kind = "set" /\ timerq = {}
           /\ out'.tx # <<>> /\ out'.tx[Len(out'.tx)].ret = 0)
          => (timerq' # {} /\ ctx'.ptimer \in timerq')
      ]_vars

(* C35: immediately after a successful Initialize every configured         *)
(* resource has its session lock none and its broadcast key 0, and the     *)
(* watchdog handle has a defined value: null when Initialize sent no       *)
(* packet (ps2, dgspi), the armed timer when it sent one (cmods7).         *)
C35_InitDefinesHandle ==
    (evt.kind = "init" /\ ~out.fault)
    => /\ \A r \in DOMAIN rsc : rsc[r].uilock = NOLOCK /\ rsc[r].bkey = 0
       /\ IF out.tx = <<>> THEN ctx.ptimer = 0 /\ timerq = {}
                           ELSE ctx.ptimer # 0 /\ timerq = {ctx.ptimer}

\* the vgaterm resource that owns the register of a read reply
VgaOwner(reg) == IF reg = VGA_REG_CHAR THEN "char" ELSE "cursor"

(* C36: in vgaterm, when two sessions have outstanding Gets on char and on *)
(* cursor and a reply arrives, in either order, it is delivered (text and  *)
(* prompt) to the session locked on the resource that owns the reply's     *)
(* register (reg 0: char, reg 1: cursor) and clears only that resource's   *)
(* lock; every other resource's lock and its holder are unchanged.         *)
C36_RepliesRoutedByRegister ==
    [][(/\ evt'.kind = "pkt"
        /\ evt'.pkt.cmd.op = OP_READ /\ ~evt'.pkt.cmd.auto
        /\ evt'.pkt.reg \in {VGA_REG_CHAR, VGA_REG_CURCOL}
        /\ rsc["char"].uilock # NOLOCK /\ rsc["cursor"].uilock # NOLOCK)
       => /\ Len(out'.ui) = 2
          /\ out'.ui[1].fn = "send_ui" /\ out'.ui[2].fn = "prompt"
          /\ out'.ui[1].cn = rsc[VgaOwner(evt'.pkt.reg)].uilock
          /\ out'.ui[2].cn = rsc[VgaOwner(evt'.pkt.reg)].uilock
          /\ out'.ui[1].text = IF evt'.pkt.reg = VGA_REG_CHAR
                                THEN VgaFmtChar(evt'.pkt.data)
                                ELSE VgaFmtCursor(evt'.pkt.data)
          /\ rsc'[VgaOwner(evt'.pkt.reg)].uilock = NOLOCK
          /\ \A r \in DOMAIN rsc \ {VgaOwner(evt'.pkt.reg)} :
                rsc'[r].uilock = rsc[r].uilock
      ]_vars

\* the char reply has gone to the session that asked for char while another
\* session still holds the lock of cursor
C36_Witness ==
    /\ evt.kind = "pkt" /\ evt.pkt.cmd.op = OP_READ /\ ~evt.pkt.cmd.auto
    /\ evt.pkt.reg = VGA_REG_CHAR
    /\ Len(out.ui) = 2 /\ out.ui[1].cn \in Sessions
    /\ rsc["char"].uilock = NOLOCK
    /\ rsc["cursor"].uilock \in Sessions \ {out.ui[1].cn}

\* pcset period was given a value usercmd accepted
AcceptedPeriod(e, o) ==
    e.kind = "set" /\ e.r = "period" /\ o.reply # E_BDVAL("period")

(* C37: in isl29125 the poll-timer handle is non-null exactly when one     *)
(* periodic poll timer is registered: after any sequence of pcset period   *)
(* commands at most one poll timer exists, it is the one the handle names  *)
(* and it was added with the last accepted non-zero period; after pcset    *)
(* period 0 no poll timer is registered and the handle is null, so no Set  *)
(* deletes a timer that is already deleted.                                *)
C37_PollHandleMatchesTimer ==
    /\ Cardinality(timerq) <= 1
    /\ IF ctx.ptimer = 0 THEN timerq = {} ELSE timerq = {ctx.ptimer}
    /\ timerq # {} => ctx.period # 0
    /\ AcceptedPeriod(evt, out)
          => /\ ctx.period = ScanDec(evt.val).val
             /\ IF ctx.period = 0
                THEN out.add = <<>> /\ timerq = {}
                ELSE /\ Len(out.add) = 1
                     /\ out.add[1].type = "PC_PERIODIC"
                     /\ out.add[1].ms = ctx.period
                     /\ out.add[1].h = ctx.ptimer
    /\ \A i \in DOMAIN out.del : out.del[i].armed

(* C38: in isl29125 a read error other than EAGAIN during a poll disables  *)
(* the device: the file descriptor is closed and marked -1, the poll timer *)
(* is deleted and its handle cleared, nothing is broadcast, and no poll    *)
(* timer runs again until the user sets the period; an EAGAIN error        *)
(* changes no state and the poll timer stays.                              *)
C38_ReadErrorDisables ==
    [][/\ (evt'.kind = "poll" /\ evt'.rd.count < 0 /\ evt'.rd.errno # "EAGAIN")
          => /\ out'.sys = <<[fn |-> "close", fd |-> ctx.islfd],
                             [fn |-> "del_fd", fd |-> ctx.islfd]>>
             /\ ctx'.islfd = -1
             /\ out'.del = <<[h |-> evt'.h, armed |-> TRUE]>>
             /\ timerq' = {} /\ ctx'.ptimer = 0
             /\ out'.ui = <<>>
             /\ out'.log # <<>>
       /\ (evt'.kind = "poll" /\ evt'.rd.count < 0 /\ evt'.rd.errno = "EAGAIN")
          => /\ ctx' = ctx /\ rsc' = rsc /\ subs' = subs
             /\ timerq' = timerq /\ timerq' # {}
             /\ out'.ui = <<>> /\ out'.sys = <<>> /\ out'.del = <<>>
       /\ (timerq = {} /\ timerq' # {}) => AcceptedPeriod(evt', out')
      ]_vars

\* a poll of the open descriptor 3 has failed with EIO: the descriptor is
\* closed and no timer is left
C38_Witness ==
    /\ evt.kind = "poll" /\ evt.rd.count < 0 /\ evt.rd.errno = "EIO"
    /\ out.sys # <<>> /\ out.sys[1] = [fn |-> "close", fd |-> 3]
    /\ ctx.islfd = -1 /\ timerq = {} /\ ctx.ptimer = 0

\* the values of a `pcset segments` value, in the order they were given
GivenSegs(val) == Sscanf(val, <<"x", "x", "x", "x">>, <<>>)

\* four values printed in order, each as "%0wx", separated by a space
RunSegText(got, w) ==
    FmtHexW(got[1], w) \o " " \o FmtHexW(got[2], w) \o " "
    \o FmtHexW(got[3], w) \o " " \o FmtHexW(got[4], w) \o "\n"

\* the last command was a `pcset segments` that was accepted (no error
\* came back) and this one is a `pcget segments`
GetAfterAcceptedSet ==
    /\ drv = "runber"
    /\ evt.kind = "set" /\ evt.r = "segments" /\ out.reply = NoReply
    /\ evt'.kind = "get" /\ evt'.r = "segments"

\* C39: in runber, `pcget segments` issued after an accepted
\* `pcset segments a b c d` returns the four values a b c d that were set,
\* in the order they were given (printed as hex, with or without the
\* leading zero)
C39_GetSegmentsReturnsSet ==
    [][GetAfterAcceptedSet
          => out'.reply \in {RunSegText(GivenSegs(evt.val), 2),
                             RunSegText(GivenSegs(evt.val), 1)}]_vars

====
